---- MODULE Spec2Model ----
(***************************************************************************)
(* State-machine model of the rig-bdi incident agent: the SQLite event     *)
(* log, the BDI agent loop with its executor and LLM planner, the UI       *)
(* commands that write to the log, the decision consumer and the runtime   *)
(* dispatcher.                                                             *)
(*                                                                         *)
(* Strings that the code only compares for equality are TLA+ strings.      *)
(* Strings that the code lowercases or searches (alert titles, tags,       *)
(* runbook names) are sequences of tokens: to_lowercase maps every token   *)
(* to its lowercase form and contains is contiguous-subsequence search.    *)
(***************************************************************************)
EXTENDS Integers, Sequences, FiniteSets, TLC

\* ------------------------------------------------------------------ bounds
\* facts the webhook endpoints push onto the fact channel in one behaviour
MaxFacts == 2
\* facts pushed in one behaviour of the whole runtime
MaxSysFacts == 1
\* UI commands issued one after the other in one behaviour
MaxUiOps == 3
\* rows the events table may hold in a behaviour of the whole runtime
MaxLog == 7
\* append calls that return Err in one behaviour of the whole runtime
MaxStorageErrs == 1
\* rows of the log the dispatcher tails beside writers of every event type
MaxTailLog == 3
\* rows of a log of action events written through EventLog::append
MaxToolLog == 4
\* facts of a burst of alerts, more than the window of recent facts holds
MaxBurst == 18
\* action names in one answer of the LLM
MaxNames == 2
\* webhook requests answered in one behaviour of the webhook server
MaxRequests == 3
\* words in the title of an alert handed to detect_pattern
MaxWords == 2
\* runbooks in a configuration handed to select_runbook
MaxRunbooks == 2
\* effects classified in one behaviour
MaxEffects == 4

\* ------------------------------------------------------------ text model
Lower(tok) ==
    CASE tok = "CrashLoop" -> "crashloop"
      [] tok = "OOM" -> "oom"
      [] tok = "Out Of Memory" -> "out of memory"
      [] tok = "Approve" -> "approve"
      [] tok = "CRITICAL" -> "critical"
      [] OTHER -> tok

to_lowercase(s) == [i \in 1..Len(s) |-> Lower(s[i])]

contains(s, needle) ==
    \E i \in 0..(Len(s) - Len(needle)) :
        \A j \in 1..Len(needle) : s[i + j] = needle[j]

\* ------------------------------------------------------------- the facts
\* facts.rs: a Fact is the Alert variant; source and received_at play no part
\* in any decision and are left out.
NoFact == [id |-> "", severity |-> "", title |-> <<>>, tags |-> <<>>]

CrashFact ==
    [id |-> "inc-1", severity |-> "High",
     title |-> <<"Pod ", "crashloop", "ing">>, tags |-> << <<"crashloop">> >>]

DiskFact ==
    [id |-> "inc-2", severity |-> "High",
     title |-> <<"disk space low">>, tags |-> <<>>]

OomFact ==
    [id |-> "inc-2", severity |-> "Critical",
     title |-> <<"container ", "OOM", " killed">>, tags |-> << <<"k8s">> >>]

FactPool == {CrashFact, DiskFact, OomFact}

Incidents == {"inc-1", "inc-2"}

incident_id_from_fact(fact) == fact.id

\* ------------------------------------------------------------- effects
\* enum Effect, in declaration order
Effects == <<"Pure", "Observe", "Mutate", "Irreversible">>

recovery(effect) ==
    CASE effect \in {"Pure", "Observe"} -> "Retry"
      [] effect = "Mutate" -> "CheckAndRetry"
      [] effect = "Irreversible" -> "ManualReview"

\* faulty variant: a mutation cannot be backtracked past either
backtrackable_without_mutate(effect) == effect \in {"Pure", "Observe"}

backtrackable(effect) == effect \in {"Pure", "Observe", "Mutate"}

\* u32
cost_weight(effect) ==
    CASE effect = "Pure" -> 1
      [] effect = "Observe" -> 2
      [] effect = "Mutate" -> 10
      [] effect = "Irreversible" -> 100

\* ----------------------------------------------------- runbooks, planner
Action(name, effect) == [name |-> name, effect |-> effect]

crashloop_runbook ==
    << Action("inspect-pod-logs", "Observe"), Action("rollback-deployment", "Mutate") >>

oomkill_runbook ==
    << Action("inspect-memory-metrics", "Observe"), Action("tune-memory-limits", "Mutate") >>

NoAction == Action("", "")

\* faulty variant: the OOM keys are looked for before the crash-loop key
detect_pattern_oom_first(fact) ==
    LET title_lower == to_lowercase(fact.title)
        tags_lower == [i \in 1..Len(fact.tags) |-> to_lowercase(fact.tags[i])]
    IN  IF \/ contains(title_lower, <<"oom">>)
           \/ contains(title_lower, <<"out of memory">>)
           \/ \E i \in 1..Len(tags_lower) : contains(tags_lower[i], <<"oom">>)
        THEN "OomKill"
        ELSE IF \/ contains(title_lower, <<"crashloop">>)
                \/ \E i \in 1..Len(tags_lower) : contains(tags_lower[i], <<"crashloop">>)
             THEN "CrashLoop"
             ELSE "Generic"

detect_pattern(fact) ==
    LET title_lower == to_lowercase(fact.title)
        tags_lower == [i \in 1..Len(fact.tags) |-> to_lowercase(fact.tags[i])]
    IN  IF \/ contains(title_lower, <<"crashloop">>)
           \/ \E i \in 1..Len(tags_lower) : contains(tags_lower[i], <<"crashloop">>)
        THEN "CrashLoop"
        ELSE IF \/ contains(title_lower, <<"oom">>)
                \/ contains(title_lower, <<"out of memory">>)
                \/ \E i \in 1..Len(tags_lower) : contains(tags_lower[i], <<"oom">>)
             THEN "OomKill"
             ELSE "Generic"

NoRunbook == [name |-> <<>>, steps |-> <<>>]

\* faulty variant: the last matching runbook is returned
select_last_runbook(pattern, runbooks) ==
    IF pattern = "Generic" THEN NoRunbook
    ELSE LET preferred == IF pattern = "CrashLoop" THEN <<"crashloop">> ELSE <<"oom", "kill">>
             hits == {i \in 1..Len(runbooks) :
                         contains(to_lowercase(runbooks[i].name), preferred)}
         IN  IF hits = {} THEN NoRunbook
             ELSE runbooks[CHOOSE i \in hits : \A j \in hits : i >= j]

\* Option<(&str, Runbook)>: NoRunbook stands for None
select_runbook(pattern, runbooks) ==
    IF pattern = "Generic" THEN NoRunbook
    ELSE LET preferred == IF pattern = "CrashLoop" THEN <<"crashloop">> ELSE <<"oom", "kill">>
             hits == {i \in 1..Len(runbooks) :
                         contains(to_lowercase(runbooks[i].name), preferred)}
         IN  IF hits = {} THEN NoRunbook
             ELSE runbooks[CHOOSE i \in hits : \A j \in hits : i <= j]

\* --------------------------------------------------------- configuration
BuiltinRunbooks ==
    << [name |-> <<"crashloop", "_runbook">>, steps |-> crashloop_runbook],
       [name |-> <<"oom", "kill", "_runbook">>, steps |-> oomkill_runbook] >>

\* AgentConfig as agent-server and the desktop runtime build it; llm is set iff
\* the API key variable is present in the environment
RuntimeConfig(llm) ==
    [max_replan_attempts |-> 3, runbooks |-> BuiltinRunbooks,
     all_actions |-> crashloop_runbook \o oomkill_runbook, llm |-> llm]

\* other configurations a caller of run_agent may pass
CrashOnlyConfig(llm) ==
    [max_replan_attempts |-> 1, runbooks |-> SubSeq(BuiltinRunbooks, 1, 1),
     all_actions |-> <<>>, llm |-> llm]

\* a caller's own runbooks: one without steps under a name that matches the
\* crash-loop key, and one with a single Irreversible step for OOM kills
CustomRunbooksConfig ==
    [max_replan_attempts |-> 5,
     runbooks |-> << [name |-> <<"crashloop", "_noop">>, steps |-> <<>>],
                     [name |-> <<"oom", "kill", "_drain">>,
                      steps |-> <<Action("drain-node", "Irreversible")>>] >>,
     all_actions |-> <<>>, llm |-> FALSE]

BareConfig ==
    [max_replan_attempts |-> 1, runbooks |-> <<>>, all_actions |-> <<>>, llm |-> TRUE]

RuntimeConfigs == {RuntimeConfig(TRUE), RuntimeConfig(FALSE)}

ConfigPool ==
    RuntimeConfigs \cup {CrashOnlyConfig(TRUE), CrashOnlyConfig(FALSE), BareConfig,
                         CustomRunbooksConfig}

RECURSIVE Flatten(_)
Flatten(runbooks) ==
    IF runbooks = <<>> THEN <<>> ELSE Head(runbooks).steps \o Flatten(Tail(runbooks))

RECURSIVE DedupByName(_, _)
DedupByName(actions, out) ==
    IF actions = <<>> THEN out
    ELSE IF \E k \in 1..Len(out) : out[k].name = Head(actions).name
         THEN DedupByName(Tail(actions), out)
         ELSE DedupByName(Tail(actions), Append(out, Head(actions)))

known_actions(cfg) ==
    IF cfg.all_actions # <<>> THEN cfg.all_actions
    ELSE LET out == DedupByName(Flatten(cfg.runbooks), <<>>)
         IN  IF out = <<>> THEN crashloop_runbook ELSE out

\* ------------------------------------------------------------------- LLM
\* What the provider may answer. interpret yields candidate action names,
\* the planner prompt yields proposed action names; either call may fail.

CandidatePool ==
    { <<>>, <<"inspect-memory-metrics">>, <<"delete-cluster", "rollback-deployment">> }

ProposalPool ==
    { <<>>, <<"inspect-memory-metrics">>, <<"delete-cluster">>,
      <<"rollback-deployment", "delete-cluster", "inspect-pod-logs">> }

RECURSIVE Validate(_, _)
\* llm.rs 88-93: keep, in the order returned, the names found in all_actions
Validate(names, all_actions) ==
    IF names = <<>> THEN <<>>
    ELSE LET hits == {k \in 1..Len(all_actions) : all_actions[k].name = Head(names)}
             rest == Validate(Tail(names), all_actions)
         IN  IF hits = {} THEN rest
             ELSE <<all_actions[CHOOSE k \in hits : \A m \in hits : k <= m]>> \o rest

InSeq(x, s) == \E k \in 1..Len(s) : s[k] = x

\* llm.rs 94-100: the fallback over candidate_actions, in all_actions order
CandidateFallback(candidate_actions, all_actions) ==
    SelectSeq(all_actions, LAMBDA a : InSeq(a.name, candidate_actions))

\* faulty variant: the names the provider returned are taken as they are
propose_unvalidated(names, candidate_actions, all_actions) ==
    [k \in 1..Len(names) |-> Action(names[k], "Mutate")]

\* faulty variant: the validated steps come in the order of all_actions
propose_in_catalogue_order(names, candidate_actions, all_actions) ==
    LET selected == SelectSeq(all_actions, LAMBDA a : InSeq(a.name, names))
    IN  IF selected = <<>> THEN CandidateFallback(candidate_actions, all_actions)
        ELSE selected

\* the Ok value of propose_and_validate once the provider returned names
propose_and_validate(names, candidate_actions, all_actions) ==
    LET selected == Validate(names, all_actions)
    IN  IF selected = <<>> THEN CandidateFallback(candidate_actions, all_actions)
        ELSE selected

\* ------------------------------------------------------------- event log
BlankEvent ==
    [id |-> 0, incident_id |-> "", event_type |-> "", has_details |-> FALSE,
     name |-> "", effect |-> "", status |-> "", reason |-> "", error |-> "",
     fact |-> NoFact, fact_id |-> "", ref |-> 0, decision |-> ""]

VARIABLES
    table,          \* rows of the events table, in insertion order
    seq,            \* sqlite_sequence: the largest rowid handed out so far
    returned,       \* the ids append has returned, in call order
    faults,         \* storage errors still to be injected
    config,         \* the AgentConfig run_agent was started with
    fact_ch,        \* webhook channel: facts sent and not yet received
    senders_open,   \* some Sender<Fact> is still alive
    sent,           \* facts sent so far on the webhook channel
    http,           \* the webhook requests answered so far: route, payload, status
    escalation_ch,  \* escalation channel: requests sent and not yet received
    agent,          \* run_agent's locals and its position in the loop
    recent_facts,   \* run_agent's sliding window
    proc,           \* record of the processing of the current fact
    ui,             \* the UI command in progress, its locals and its result
    decision_ch,    \* decision channel: (incident_id, response) pairs in flight
    consumer,       \* the decision consumer thread of start_tauri_runtime
    disp,           \* the dispatcher thread: its position, last_id and the last_id it started with
    sink,           \* notifications the EventSink has received
    limits          \* how many facts and UI commands the environment issues

logVars == <<table, seq, returned, faults>>
agentVars == <<fact_ch, senders_open, sent, http, escalation_ch, agent, recent_facts, proc>>
uiVars == <<ui, decision_ch, consumer>>
dispVars == <<disp, sink>>
vars == <<table, seq, returned, faults, config, fact_ch, senders_open, sent, http,
          escalation_ch, agent, recent_facts, proc, ui, decision_ch, consumer,
          disp, sink, limits>>

\* faulty variant: the id column is not generated, every row gets the same id
RowIdNotGenerated(s) == s

\* AUTOINCREMENT: one more than the largest rowid ever used
NextRowId(s) == s + 1

\* INSERT INTO events: one more row, the others untouched
Insert(rows, row) == Append(rows, row)

\* EventLog::append returning Ok(id)
AppendOk(ev) ==
    /\ Len(table) < limits.rows
    /\ table' = Insert(table, [ev EXCEPT !.id = NextRowId(seq)])
    /\ seq' = NextRowId(seq)
    /\ returned' = Append(returned, NextRowId(seq))
    /\ faults' = faults

\* EventLog::append returning Err: the INSERT did not happen
AppendErr ==
    /\ faults > 0
    /\ faults' = faults - 1
    /\ UNCHANGED <<table, seq, returned>>

\* ORDER BY id ASC: row k goes to the place given by the number of rows with a
\* smaller id, rows of equal id keeping their order
OrderById(rows) ==
    LET place(k) == 1 + Cardinality({j \in 1..Len(rows) :
                                        \/ rows[j].id < rows[k].id
                                        \/ rows[j].id = rows[k].id /\ j < k})
    IN  IF \A k \in 1..(Len(rows) - 1) : rows[k].id < rows[k + 1].id
        THEN rows   \* already in id order
        ELSE [n \in 1..Len(rows) |-> rows[CHOOSE k \in 1..Len(rows) : place(k) = n]]

events_for_incident(t, incident_id) ==
    OrderById(SelectSeq(t, LAMBDA e : e.incident_id = incident_id))

\* faulty variant: WHERE id >= ?1
events_after_inclusive(t, after_id) ==
    OrderById(SelectSeq(t, LAMBDA e : e.id >= after_id))

events_after(t, after_id) ==
    OrderById(SelectSeq(t, LAMBDA e : e.id > after_id))

\* faulty variant: an Escalated event closes the incident like a Resolved one
active_incidents_closed_by_escalation(t) ==
    LET all == {t[k].incident_id : k \in 1..Len(t)}
        closed == {t[k].incident_id :
                      k \in {m \in 1..Len(t) : t[m].event_type \in {"Resolved", "Escalated"}}}
    IN  all \ closed

\* faulty variant: an event appended after the Resolved one opens the incident again
active_incidents_reopened(t) ==
    LET all == {t[k].incident_id : k \in 1..Len(t)}
        resolved == {t[k].incident_id :
                        k \in {m \in 1..Len(t) :
                                  /\ t[m].event_type = "Resolved"
                                  /\ \A n \in (m + 1)..Len(t) :
                                        t[n].incident_id # t[m].incident_id}}
    IN  all \ resolved

active_incidents(t) ==
    LET all == {t[k].incident_id : k \in 1..Len(t)}
        resolved == {t[k].incident_id : k \in {m \in 1..Len(t) : t[m].event_type = "Resolved"}}
    IN  all \ resolved

latest_event_id(t) ==
    IF t = <<>> THEN 0
    ELSE CHOOSE m \in {t[k].id : k \in 1..Len(t)} : \A k \in 1..Len(t) : t[k].id <= m

\* ------------------------------------------------------- event builders
Event(incident_id, event_type) ==
    [BlankEvent EXCEPT !.incident_id = incident_id, !.event_type = event_type]

FactAssertedEvent(incident_id, fact) ==
    [Event(incident_id, "FactAsserted") EXCEPT !.has_details = TRUE, !.fact = fact]

PlanSelectedEvent(incident_id) ==
    [Event(incident_id, "PlanSelected") EXCEPT !.has_details = TRUE]

ActionIntentEvent(incident_id, step) ==
    [Event(incident_id, "ActionIntent") EXCEPT
        !.has_details = TRUE, !.name = step.name, !.effect = step.effect,
        !.status = "running"]

\* out is "ok" for Ok(output) and the error string for Err(err)
ActionResultEvent(incident_id, step, out) ==
    [Event(incident_id, "ActionResult") EXCEPT
        !.has_details = TRUE, !.name = step.name, !.effect = step.effect,
        !.status = IF out = "ok" THEN "done" ELSE "failed",
        !.error = IF out = "ok" THEN "" ELSE out]

\* the Escalated event of a failed plan: name and effect of the failed step
EscalatedEvent(incident_id, failed_step, reason) ==
    [Event(incident_id, "Escalated") EXCEPT
        !.has_details = TRUE, !.name = failed_step.name, !.effect = failed_step.effect,
        !.status = "failed", !.reason = reason]

ResolvedEvent(incident_id) == Event(incident_id, "Resolved")

EscalationRequest(incident_id, reason) == [incident_id |-> incident_id, reason |-> reason]

\* ------------------------------------------------------------ agent loop
\* what a tool_executor closure may return: Ok, or Err with this message
ToolOutcomes == {"ok", "boom"}

\* the closure the runtimes pass to run_agent answers Ok for every action
StubOutcomes == {"ok"}

WindowSize == 16

\* faulty variant: a full window keeps its oldest facts and drops the new one
PushRecentKeepOldest(window, fact) ==
    IF Len(window) >= WindowSize THEN window ELSE Append(window, fact)

\* agent.rs 39-42
PushRecent(window, fact) ==
    LET pushed == Append(window, fact)
    IN  IF Len(pushed) > WindowSize THEN Tail(pushed) ELSE pushed

IdleAgent ==
    [pc |-> "recv", fact |-> NoFact, incident_id |-> "", selected |-> <<>>, i |-> 0,
     out |-> "", failed_step |-> NoAction, reason |-> ""]

\* What the loop did for the fact it received last: the rows its appends
\* stored, the plan handed to execute_plan, the step and row id of every
\* ActionIntent and of every ActionResult stored, the tool calls it made with
\* their outcomes, the
\* escalation requests it sent, how it planned (via), what the LLM answered
\* (llm, names, cands), how many of its appends returned Err, and the reason the fact
\* before it was escalated for (prev, "" if it was not); pattern and runbook
\* hold what detect_pattern and select_runbook returned when called on their own,
\* weighed what the methods of Effect returned for a list of effects.
NoProc ==
    [n |-> 0, fact |-> NoFact, events |-> <<>>, plan |-> <<>>, intents |-> <<>>,
     results |-> <<>>, tools |-> <<>>, outs |-> <<>>, requests |-> <<>>, via |-> "", llm |-> "",
     names |-> <<>>, cands |-> <<>>, errs |-> 0, done |-> FALSE, prev |-> "",
     pattern |-> "", runbook |-> NoRunbook, weighed |-> <<>>]

\* the row an append that returns Ok stores
Stored(ev) == [ev EXCEPT !.id = NextRowId(seq)]

\* `let _ = log.append(..)`: the result is dropped
AgentAppend(ev, done) ==
    \/ /\ AppendOk(ev)
       /\ proc' = [proc EXCEPT !.events = Append(@, Stored(ev)), !.done = done]
    \/ /\ AppendErr
       /\ proc' = [proc EXCEPT !.errs = @ + 1, !.done = done]

\* faulty variant: execute_plan returns Ok(()) after the first successful step
AfterResultReturnsEarly(a) ==
    IF a.out = "ok"
    THEN [a EXCEPT !.pc = "resolved", !.out = ""]
    ELSE [a EXCEPT !.pc = "fail_send", !.failed_step = a.selected[a.i],
                   !.reason = a.out, !.out = ""]

\* faulty variant: a failed step does not end the plan
AfterResultIgnoresFailure(a) ==
    IF a.i < Len(a.selected)
    THEN [a EXCEPT !.pc = "intent", !.i = a.i + 1, !.out = ""]
    ELSE [a EXCEPT !.pc = "resolved", !.out = ""]

\* faulty variant: a failed step is started again while fewer than
\* max_replan_attempts tool calls have failed
AfterResultRetries(a) ==
    IF a.out = "ok"
    THEN IF a.i < Len(a.selected)
         THEN [a EXCEPT !.pc = "intent", !.i = a.i + 1, !.out = ""]
         ELSE [a EXCEPT !.pc = "resolved", !.out = ""]
    ELSE IF Len(SelectSeq(proc.outs, LAMBDA o : o # "ok")) < config.max_replan_attempts
         THEN [a EXCEPT !.pc = "intent", !.out = ""]
         ELSE [a EXCEPT !.pc = "fail_send", !.failed_step = a.selected[a.i],
                        !.reason = a.out, !.out = ""]

\* where execute_plan goes once the step's ActionResult is appended
AfterResult(a) ==
    IF a.out = "ok"
    THEN IF a.i < Len(a.selected)
         THEN [a EXCEPT !.pc = "intent", !.i = a.i + 1, !.out = ""]
         ELSE [a EXCEPT !.pc = "resolved", !.out = ""]
    ELSE [a EXCEPT !.pc = "fail_send", !.failed_step = a.selected[a.i],
                   !.reason = a.out, !.out = ""]

\* faulty variant: the steps are started from the last to the first
StartPlanReversed(a, plan) ==
    IF plan = <<>> THEN [a EXCEPT !.pc = "resolved", !.selected = plan]
    ELSE [a EXCEPT !.pc = "intent", !.i = 1,
                   !.selected = [k \in 1..Len(plan) |-> plan[Len(plan) + 1 - k]]]

\* entering execute_plan with the selected plan
StartPlan(a, plan) ==
    IF plan = <<>> THEN [a EXCEPT !.pc = "resolved", !.selected = plan]
    ELSE [a EXCEPT !.pc = "intent", !.selected = plan, !.i = 1]

\* faulty variant: `break` in place of `continue`
Break(a) == [IdleAgent EXCEPT !.pc = "stopped"]

\* the arm of the loop taken after an escalation: `continue`
Continue(a) == IdleAgent

\* faulty variant: recv() takes the newest fact of the channel
AgentRecvNewest ==
    /\ agent.pc = "recv"
    /\ fact_ch # <<>>
    /\ LET newest == fact_ch[Len(fact_ch)]
       IN  /\ fact_ch' = SubSeq(fact_ch, 1, Len(fact_ch) - 1)
           /\ recent_facts' = PushRecent(recent_facts, newest)
           /\ agent' = [IdleAgent EXCEPT !.pc = "assert", !.fact = newest,
                                         !.incident_id = incident_id_from_fact(newest)]
           /\ proc' = [NoProc EXCEPT !.n = proc.n + 1, !.fact = newest,
                                     !.prev = IF proc.requests = <<>> THEN ""
                                              ELSE proc.requests[1].reason]
    /\ UNCHANGED <<logVars, config, senders_open, sent, http, escalation_ch, uiVars, dispVars, limits>>

AgentRecv ==
    /\ agent.pc = "recv"
    /\ fact_ch # <<>>
    /\ fact_ch' = Tail(fact_ch)
    /\ recent_facts' = PushRecent(recent_facts, Head(fact_ch))
    /\ agent' = [IdleAgent EXCEPT !.pc = "assert", !.fact = Head(fact_ch),
                                  !.incident_id = incident_id_from_fact(Head(fact_ch))]
    /\ proc' = [NoProc EXCEPT !.n = proc.n + 1, !.fact = Head(fact_ch),
                              !.prev = IF proc.requests = <<>> THEN ""
                                       ELSE proc.requests[1].reason]
    /\ UNCHANGED <<logVars, config, senders_open, sent, http, escalation_ch, uiVars, dispVars, limits>>

\* faulty variant: recv() returns Err as soon as every sender is dropped
AgentStopOnDisconnect ==
    /\ agent.pc = "recv"
    /\ ~senders_open
    /\ agent' = [agent EXCEPT !.pc = "stopped"]
    /\ UNCHANGED <<logVars, config, fact_ch, senders_open, sent, http, escalation_ch,
                   recent_facts, proc, uiVars, dispVars, limits>>

\* recv() returns Err once the channel is empty and every sender is dropped
AgentStop ==
    /\ agent.pc = "recv"
    /\ fact_ch = <<>>
    /\ ~senders_open
    /\ agent' = [agent EXCEPT !.pc = "stopped"]
    /\ UNCHANGED <<logVars, config, fact_ch, senders_open, sent, http, escalation_ch,
                   recent_facts, proc, uiVars, dispVars, limits>>

AgentAssert ==
    /\ agent.pc = "assert"
    /\ AgentAppend(FactAssertedEvent(agent.incident_id, agent.fact), FALSE)
    /\ agent' = [agent EXCEPT !.pc = "plan"]
    /\ UNCHANGED <<config, fact_ch, senders_open, sent, http, escalation_ch, recent_facts,
                   uiVars, dispVars, limits>>

\* faulty variant: the pattern is detected on the oldest fact of the window
SelectionFromWindow == select_runbook(detect_pattern(Head(recent_facts)), config.runbooks)

Selection == select_runbook(detect_pattern(agent.fact), config.runbooks)

AgentPlanRunbook ==
    /\ agent.pc = "plan"
    /\ Selection # NoRunbook
    /\ \/ /\ AppendOk(PlanSelectedEvent(agent.incident_id))
          /\ proc' = [proc EXCEPT
                         !.events = Append(@, Stored(PlanSelectedEvent(agent.incident_id))),
                         !.via = "runbook", !.plan = Selection.steps]
       \/ /\ AppendErr
          /\ proc' = [proc EXCEPT !.errs = @ + 1, !.via = "runbook",
                                  !.plan = Selection.steps]
    /\ agent' = StartPlan(agent, Selection.steps)
    /\ UNCHANGED <<config, fact_ch, senders_open, sent, http, escalation_ch, recent_facts,
                   uiVars, dispVars, limits>>

\* interpret and propose_and_validate both returned Ok and the plan is not empty
AgentPlanLlm ==
    /\ agent.pc = "plan"
    /\ Selection = NoRunbook
    /\ config.llm
    /\ \E candidate_actions \in CandidatePool, names \in ProposalPool :
          LET actions == propose_and_validate(names, candidate_actions, known_actions(config))
          IN  /\ actions # <<>>
              /\ agent' = StartPlan(agent, actions)
              /\ \/ /\ AppendOk(PlanSelectedEvent(agent.incident_id))
                    /\ proc' = [proc EXCEPT
                                   !.events = Append(@, Stored(PlanSelectedEvent(agent.incident_id))),
                                   !.via = "llm", !.llm = "ok", !.names = names,
                                   !.cands = candidate_actions, !.plan = actions]
                 \/ /\ AppendErr
                    /\ proc' = [proc EXCEPT !.errs = @ + 1, !.via = "llm", !.llm = "ok",
                                            !.names = names, !.cands = candidate_actions,
                                            !.plan = actions]
    /\ UNCHANGED <<config, fact_ch, senders_open, sent, http, escalation_ch, recent_facts,
                   uiVars, dispVars, limits>>

\* faulty variant: an empty or missing LLM plan is executed like any other plan
AgentPlanLlmFailExecutes ==
    /\ agent.pc = "plan"
    /\ Selection = NoRunbook
    /\ config.llm
    /\ \E how \in {"interpret_err", "propose_err", "empty"} :
          /\ AppendOk(PlanSelectedEvent(agent.incident_id))
          /\ proc' = [proc EXCEPT
                         !.events = Append(@, Stored(PlanSelectedEvent(agent.incident_id))),
                         !.via = "llm", !.llm = how]
    /\ agent' = StartPlan(agent, <<>>)
    /\ UNCHANGED <<config, fact_ch, senders_open, sent, http, escalation_ch, recent_facts,
                   uiVars, dispVars, limits>>

\* interpret failed, or propose_and_validate failed, or the plan is empty
AgentPlanLlmFail ==
    /\ agent.pc = "plan"
    /\ Selection = NoRunbook
    /\ config.llm
    /\ \E how \in {"interpret_err", "propose_err", "empty"} :
          /\ how = "empty" =>
                \E candidate_actions \in CandidatePool, names \in ProposalPool :
                    propose_and_validate(names, candidate_actions, known_actions(config)) = <<>>
          /\ proc' = [proc EXCEPT !.via = "llm", !.llm = how]
    /\ agent' = [agent EXCEPT !.pc = "esc_send", !.reason = "no valid llm plan"]
    /\ UNCHANGED <<logVars, config, fact_ch, senders_open, sent, http, escalation_ch, recent_facts,
                   uiVars, dispVars, limits>>

AgentNoRunbook ==
    /\ agent.pc = "plan"
    /\ Selection = NoRunbook
    /\ ~config.llm
    /\ proc' = [proc EXCEPT !.via = "none"]
    /\ agent' = [agent EXCEPT !.pc = "esc_send", !.reason = "no matching runbook"]
    /\ UNCHANGED <<logVars, config, fact_ch, senders_open, sent, http, escalation_ch, recent_facts,
                   uiVars, dispVars, limits>>

\* escalate_no_plan, first half: the request goes onto the channel
AgentEscSend ==
    /\ agent.pc = "esc_send"
    /\ escalation_ch' = Append(escalation_ch, EscalationRequest(agent.incident_id, agent.reason))
    /\ proc' = [proc EXCEPT !.requests =
                    Append(@, EscalationRequest(agent.incident_id, agent.reason))]
    /\ agent' = [agent EXCEPT !.pc = "esc_log"]
    /\ UNCHANGED <<logVars, config, fact_ch, senders_open, sent, http, recent_facts,
                   uiVars, dispVars, limits>>

\* escalate_no_plan, second half: the Escalated event, without name or effect
AgentEscLog ==
    /\ agent.pc = "esc_log"
    /\ AgentAppend(EscalatedEvent(agent.incident_id, NoAction, agent.reason), TRUE)
    /\ agent' = Continue(agent)
    /\ UNCHANGED <<config, fact_ch, senders_open, sent, http, escalation_ch, recent_facts,
                   uiVars, dispVars, limits>>

\* execute_plan: the ActionIntent of step i
AgentIntent ==
    /\ agent.pc = "intent"
    /\ LET ev == ActionIntentEvent(agent.incident_id, agent.selected[agent.i])
       IN  \/ /\ AppendOk(ev)
              /\ proc' = [proc EXCEPT
                             !.events = Append(@, Stored(ev)),
                             !.intents = Append(@, [step |-> agent.i, id |-> NextRowId(seq)])]
           \/ /\ AppendErr
              /\ proc' = [proc EXCEPT !.errs = @ + 1]
    /\ agent' = [agent EXCEPT !.pc = "tool"]
    /\ UNCHANGED <<config, fact_ch, senders_open, sent, http, escalation_ch, recent_facts,
                   uiVars, dispVars, limits>>

\* execute_plan: tool_executor(step.clone())
AgentTool ==
    /\ agent.pc = "tool"
    /\ \E out \in limits.tools :
          /\ agent' = [agent EXCEPT !.pc = "result", !.out = out]
          /\ proc' = [proc EXCEPT !.tools = Append(@, agent.selected[agent.i].name),
                                  !.outs = Append(@, out)]
    /\ UNCHANGED <<logVars, config, fact_ch, senders_open, sent, http, escalation_ch, recent_facts,
                   uiVars, dispVars, limits>>

\* execute_plan: the ActionResult of step i, then the next step or the return
AgentResult ==
    /\ agent.pc = "result"
    /\ LET ev == ActionResultEvent(agent.incident_id, agent.selected[agent.i], agent.out)
       IN  \/ /\ AppendOk(ev)
              /\ proc' = [proc EXCEPT
                             !.events = Append(@, Stored(ev)),
                             !.results = Append(@, [step |-> agent.i, id |-> NextRowId(seq)])]
           \/ /\ AppendErr
              /\ proc' = [proc EXCEPT !.errs = @ + 1]
    /\ agent' = AfterResult(agent)
    /\ UNCHANGED <<config, fact_ch, senders_open, sent, http, escalation_ch, recent_facts,
                   uiVars, dispVars, limits>>

\* execute_plan returned Ok(())
AgentResolved ==
    /\ agent.pc = "resolved"
    /\ AgentAppend(ResolvedEvent(agent.incident_id), TRUE)
    /\ agent' = IdleAgent
    /\ UNCHANGED <<config, fact_ch, senders_open, sent, http, escalation_ch, recent_facts,
                   uiVars, dispVars, limits>>

\* faulty variant: the failure of a step is logged without a request
AgentFailSendNothing ==
    /\ agent.pc = "fail_send"
    /\ agent' = [agent EXCEPT !.pc = "fail_log"]
    /\ UNCHANGED <<logVars, config, fact_ch, senders_open, sent, http, escalation_ch, recent_facts,
                   proc, uiVars, dispVars, limits>>

\* execute_plan returned Err((failed_step, reason)): the request is sent first
AgentFailSend ==
    /\ agent.pc = "fail_send"
    /\ escalation_ch' = Append(escalation_ch, EscalationRequest(agent.incident_id, agent.reason))
    /\ proc' = [proc EXCEPT !.requests =
                    Append(@, EscalationRequest(agent.incident_id, agent.reason))]
    /\ agent' = [agent EXCEPT !.pc = "fail_log"]
    /\ UNCHANGED <<logVars, config, fact_ch, senders_open, sent, http, recent_facts,
                   uiVars, dispVars, limits>>

AgentFailLog ==
    /\ agent.pc = "fail_log"
    /\ AgentAppend(EscalatedEvent(agent.incident_id, agent.failed_step, agent.reason), TRUE)
    /\ agent' = IdleAgent
    /\ UNCHANGED <<config, fact_ch, senders_open, sent, http, escalation_ch, recent_facts,
                   uiVars, dispVars, limits>>

AgentNext ==
    \/ AgentRecv \/ AgentStop \/ AgentAssert
    \/ AgentPlanRunbook \/ AgentPlanLlm \/ AgentPlanLlmFail \/ AgentNoRunbook
    \/ AgentEscSend \/ AgentEscLog
    \/ AgentIntent \/ AgentTool \/ AgentResult
    \/ AgentResolved \/ AgentFailSend \/ AgentFailLog

\* ------------------------------------------------------ webhook endpoints
\* send_fact with a payload that parsed and validated: tx.send(fact)
WebhookSend ==
    /\ senders_open
    /\ Len(sent) < limits.facts
    /\ \E fact \in FactPool :
          /\ fact_ch' = Append(fact_ch, fact)
          /\ sent' = Append(sent, fact)
    /\ UNCHANGED <<logVars, config, senders_open, http, escalation_ch, agent, recent_facts, proc,
                   uiVars, dispVars, limits>>

\* the k-th alert of a burst: crash loop, disk, OOM, crash loop, ...
BurstFact(k) ==
    CASE k % 3 = 1 -> CrashFact
      [] k % 3 = 2 -> DiskFact
      [] OTHER -> OomFact

\* send_fact for the next alert of a burst
WebhookBurst ==
    /\ senders_open
    /\ Len(sent) < limits.facts
    /\ fact_ch' = Append(fact_ch, BurstFact(Len(sent) + 1))
    /\ sent' = Append(sent, BurstFact(Len(sent) + 1))
    /\ UNCHANGED <<logVars, config, senders_open, http, escalation_ch, agent, recent_facts, proc,
                   uiVars, dispVars, limits>>

\* the router, and with it the last Sender<Fact>, is dropped
DropSenders ==
    /\ senders_open
    /\ senders_open' = FALSE
    /\ UNCHANGED <<logVars, config, fact_ch, sent, http, escalation_ch, agent, recent_facts, proc,
                   uiVars, dispVars, limits>>

\* a JSON member that is missing, and one that is present but not a string
Absent == "(absent)"
NotAString == "(number)"
AbsentText == <<Absent>>

AsStr(v, default) == IF v \in {Absent, NotAString} THEN default ELSE v
\* a member that is a string, as text; anything else is no text
TextOf(v) == IF v \in {Absent, NotAString} THEN AbsentText ELSE <<v>>

AsText(v, default) == IF v = AbsentText THEN default ELSE v

\* payload.get(a).or_else(|| payload.get(b)): b is looked at only if a is missing
OrElse(a, b) == IF a = Absent THEN b ELSE a
OrElseText(a, b) == IF a = AbsentText THEN b ELSE a

\* str::trim().is_empty() of an id or a title
Whitespace == {"", " "}
BlankStr(s) == s \in Whitespace
BlankText(s) == \A k \in 1..Len(s) : s[k] \in Whitespace

\* bodies posted to /webhook/generic, /webhook/datadog and /webhook/pagerduty
NoGeneric ==
    [id |-> Absent, incident_id |-> Absent, title |-> AbsentText, alert_title |-> AbsentText,
     severity |-> Absent, tags |-> <<>>]

GenericPayloads ==
    { [NoGeneric EXCEPT !.id = "inc-1", !.title = <<"Pod ", "crashloop", "ing">>,
                        !.severity = "CRITICAL", !.tags = << <<"crashloop">> >>],
      [NoGeneric EXCEPT !.incident_id = "inc-2", !.alert_title = <<"disk space low">>],
      [NoGeneric EXCEPT !.id = NotAString, !.incident_id = "inc-2", !.title = <<"OOM">>,
                        !.severity = "low"],
      [NoGeneric EXCEPT !.id = "inc-1"],
      [NoGeneric EXCEPT !.id = " ", !.title = <<"OOM">>],
      [NoGeneric EXCEPT !.id = "inc-2", !.title = <<" ">>, !.severity = "high"],
      [NoGeneric EXCEPT !.id = "inc-1", !.title = <<"OOM">>, !.severity = "bogus"] }

\* bodies posted to /webhook/alertmanager: the alerts array, each alert with
\* its fingerprint, the labels alertname and severity, the annotation summary
NoAlert == [fingerprint |-> Absent, alertname |-> Absent, severity |-> Absent,
            summary |-> AbsentText]

AlertmanagerPayloads ==
    { [alerts |-> <<>>],
      [alerts |-> << [NoAlert EXCEPT !.fingerprint = "inc-1", !.alertname = "CrashLoop",
                                     !.severity = "CRITICAL",
                                     !.summary = <<"Pod ", "crashloop", "ing">>] >>],
      [alerts |-> << [NoAlert EXCEPT !.alertname = "OOM"] >>],
      [alerts |-> << [NoAlert EXCEPT !.fingerprint = "inc-2", !.severity = "bogus"],
                     [NoAlert EXCEPT !.fingerprint = "inc-1"] >>] }

Routes == {"generic", "datadog", "pagerduty", "alertmanager"}

\* the three generic endpoints run the same adapter: all bodies are posted to
\* /webhook/generic and some of them to the other two
PayloadsOf(route) ==
    CASE route = "alertmanager" -> AlertmanagerPayloads
      [] route = "generic" -> GenericPayloads
      [] route = "datadog" ->
            {p \in GenericPayloads : p.id = "inc-1" /\ p.severity \in {"CRITICAL", "bogus"}}
      [] route = "pagerduty" ->
            {p \in GenericPayloads : p.incident_id = "inc-2" /\ p.severity = Absent}

Ok(value) == [ok |-> TRUE, value |-> value, err |-> ""]
Err(message) == [ok |-> FALSE, value |-> NoFact, err |-> message]

validate_alert_v1(alert) ==
    IF alert.schema # "alert.v1" THEN Err("unsupported schema")
    ELSE IF BlankStr(alert.id) THEN Err("id is required")
    ELSE IF BlankText(alert.title) THEN Err("title is required")
    ELSE IF Lower(alert.severity) \notin {"low", "medium", "high", "critical"}
         THEN Err("invalid severity")
    ELSE Ok(alert)

GenericAdapter(payload) ==
    validate_alert_v1(
        [schema |-> "alert.v1",
         id |-> AsStr(OrElse(payload.id, payload.incident_id), "unknown"),
         title |-> AsText(OrElseText(payload.title, payload.alert_title), <<>>),
         severity |-> AsStr(payload.severity, "high"),
         tags |-> payload.tags])

\* the tags of an alert: "key:value" for every label that is a string, in key order
LabelTags(first) ==
    (IF first.alertname \in {Absent, NotAString} THEN <<>>
     ELSE << <<"alertname", ":", first.alertname>> >>)
    \o (IF first.severity \in {Absent, NotAString} THEN <<>>
        ELSE << <<"severity", ":", first.severity>> >>)

AlertmanagerAdapter(payload) ==
    IF payload.alerts = <<>> THEN Err("alertmanager payload missing alerts[0]")
    ELSE LET first == payload.alerts[1]
         IN  validate_alert_v1(
                [schema |-> "alert.v1",
                 id |-> AsStr(OrElse(first.fingerprint, first.alertname), "unknown"),
                 title |-> AsText(OrElseText(first.summary, TextOf(first.alertname)),
                                  <<"alertmanager alert">>),
                 severity |-> AsStr(first.severity, "high"),
                 tags |-> LabelTags(first)])

map_severity(value) ==
    CASE Lower(value) = "low" -> "Low"
      [] Lower(value) = "medium" -> "Medium"
      [] Lower(value) = "critical" -> "Critical"
      [] OTHER -> "High"

parse_with_adapter(payload, route) ==
    LET canonical == IF route = "alertmanager" THEN AlertmanagerAdapter(payload)
                     ELSE GenericAdapter(payload)
    IN  IF ~canonical.ok THEN canonical
        ELSE Ok([id |-> canonical.value.id, severity |-> map_severity(canonical.value.severity),
                 title |-> canonical.value.title, tags |-> canonical.value.tags])

\* the Receiver<Fact> lives as long as the thread of run_agent
ReceiverAlive == agent.pc # "stopped"

\* faulty variant: a rejected payload is still pushed, as an empty fact
send_fact_unchecked(fact) ==
    /\ fact_ch' = Append(fact_ch, fact.value)
    /\ sent' = Append(sent, fact.value)

\* send_fact without its answer: the fact goes to the channel if there is one
\* and the receiver lives
send_fact(fact) ==
    IF fact.ok /\ ReceiverAlive
    THEN /\ fact_ch' = Append(fact_ch, fact.value)
         /\ sent' = Append(sent, fact.value)
    ELSE UNCHANGED <<fact_ch, sent>>

StatusCode(fact) ==
    IF ~fact.ok THEN 400 ELSE IF ReceiverAlive THEN 202 ELSE 503

\* handle_generic, handle_datadog, handle_pagerduty, handle_alertmanager
handle_webhook ==
    /\ senders_open
    /\ Len(http) < limits.requests
    /\ \E route \in Routes : \E payload \in PayloadsOf(route) :
          LET fact == parse_with_adapter(payload, route)
          IN  /\ send_fact(fact)
              /\ http' = Append(http, [route |-> route, payload |-> payload,
                                       status |-> StatusCode(fact)])
    /\ UNCHANGED <<logVars, config, senders_open, escalation_ch, agent, recent_facts, proc,
                   uiVars, dispVars, limits>>

\* the caller's tool executor panics: the thread of run_agent unwinds and the
\* Receiver<Fact> is dropped with the facts still queued
AgentToolPanic ==
    /\ agent.pc = "tool"
    /\ agent' = [agent EXCEPT !.pc = "stopped"]
    /\ fact_ch' = <<>>
    /\ UNCHANGED <<logVars, config, senders_open, sent, http, escalation_ch, recent_facts,
                   proc, uiVars, dispVars, limits>>

\* ------------------------------------------------------ fact projection
NoFacts == [k \in {} |-> NoFact]

RECURSIVE materialize_fact_map(_)
\* the BTreeMap<fact id, Fact> left by replaying FactAsserted and FactRetracted
materialize_fact_map(events) ==
    IF events = <<>> THEN NoFacts
    ELSE LET current == materialize_fact_map(SubSeq(events, 1, Len(events) - 1))
             event == events[Len(events)]
         IN  IF event.event_type = "FactAsserted" /\ event.has_details /\ event.fact # NoFact
             THEN [k \in DOMAIN current \cup {event.fact.id} |->
                      IF k = event.fact.id THEN event.fact ELSE current[k]]
             ELSE IF event.event_type = "FactRetracted" /\ event.has_details
                  THEN [k \in DOMAIN current \ {event.fact_id} |-> current[k]]
                  ELSE current

\* byte order of the fact ids in use, the key order of the BTreeMap
KeyRank(id) ==
    CASE id = "f1" -> 1
      [] id = "f2" -> 2
      [] id = "inc-1" -> 3
      [] id = "inc-2" -> 4
      [] OTHER -> 5

\* fact_map.into_values().next()
FirstValue(m) == m[CHOOSE k \in DOMAIN m : \A j \in DOMAIN m : KeyRank(k) <= KeyRank(j)]

RECURSIVE ValuesFrom(_, _)
ValuesFrom(m, keys) ==
    IF keys = {} THEN <<>>
    ELSE LET k == CHOOSE k \in keys : \A j \in keys : KeyRank(k) <= KeyRank(j)
         IN  <<m[k]>> \o ValuesFrom(m, keys \ {k})

\* BTreeMap::into_values: the values in key order
into_values(m) == ValuesFrom(m, DOMAIN m)

severity_to_string(severity) ==
    CASE severity = "Low" -> "low"
      [] severity = "Medium" -> "medium"
      [] severity = "High" -> "high"
      [] severity = "Critical" -> "critical"

fact_to_dto(fact) ==
    [fact_id |-> fact.id, fact_type |-> "Alert", summary |-> fact.title,
     severity |-> severity_to_string(fact.severity), tags |-> fact.tags]

materialize_facts(events) ==
    LET values == into_values(materialize_fact_map(events))
    IN  [n \in 1..Len(values) |-> fact_to_dto(values[n])]

\* faulty variant: FactRetracted events are not replayed
get_beliefs_without_retractions(t, incident_id) ==
    materialize_facts(SelectSeq(events_for_incident(t, incident_id),
                                LAMBDA e : e.event_type # "FactRetracted"))

get_beliefs(t, incident_id) == materialize_facts(events_for_incident(t, incident_id))

SuggestedFactDto(e) ==
    [suggestion_event_id |-> e.id, fact_id |-> e.fact.id, summary |-> e.fact.title,
     severity |-> e.fact.severity, tags |-> e.fact.tags]

NoSuggestions == [k \in {} |-> SuggestedFactDto(BlankEvent)]

RECURSIVE active_suggestions(_, _)
\* the BTreeMap<event id, SuggestedFactDto> of get_suggested_facts after its loop;
\* with resolve = FALSE the FactSuggestionResolved arm is left out (faulty variant)
active_suggestions(events, resolve) ==
    IF events = <<>> THEN NoSuggestions
    ELSE LET active == active_suggestions(SubSeq(events, 1, Len(events) - 1), resolve)
             e == events[Len(events)]
         IN  IF e.event_type = "FactSuggested" /\ e.has_details
             THEN [k \in DOMAIN active \cup {e.id} |->
                      IF k = e.id THEN SuggestedFactDto(e) ELSE active[k]]
             ELSE IF resolve /\ e.event_type = "FactSuggestionResolved" /\ e.has_details
                  THEN [k \in DOMAIN active \ {e.ref} |-> active[k]]
                  ELSE active

RECURSIVE ValuesById(_, _)
ValuesById(m, keys) ==
    IF keys = {} THEN <<>>
    ELSE LET k == CHOOSE k \in keys : \A j \in keys : k <= j
         IN  <<m[k]>> \o ValuesById(m, keys \ {k})

\* faulty variant: resolved suggestions stay listed
get_suggested_facts_ignoring_resolved(t, incident_id) ==
    LET active == active_suggestions(events_for_incident(t, incident_id), FALSE)
    IN  ValuesById(active, DOMAIN active)

get_suggested_facts(t, incident_id) ==
    LET active == active_suggestions(events_for_incident(t, incident_id), TRUE)
    IN  ValuesById(active, DOMAIN active)

\* incident ids by descending id of their latest event
all_incidents(t) ==
    LET max_id(i) == latest_event_id(SelectSeq(t, LAMBDA e : e.incident_id = i))
        ordered == OrderById(t)
        latest == SelectSeq(ordered, LAMBDA e : e.id = max_id(e.incident_id))
    IN  [n \in 1..Len(latest) |-> latest[Len(latest) + 1 - n].incident_id]

\* faulty variant: the loop over the events is skipped
summarize_no_events(events, dto) == dto

RECURSIVE summarize_events(_, _)
\* the loop of summarize_incident over the incident's events, id set aside
summarize_events(events, dto) ==
    IF events = <<>> THEN dto
    ELSE LET event == Head(events)
             next ==
                CASE event.event_type = "Resolved" ->
                        [dto EXCEPT !.status = "resolved", !.current_phase = "resolved"]
                  [] event.event_type = "Escalated" ->
                        [dto EXCEPT !.status = "escalated", !.current_phase = "escalating"]
                  [] event.event_type = "EscalationResponded" ->
                        [dto EXCEPT !.current_phase = "human-response"]
                  [] event.event_type \in {"FactRetracted", "FactSuggested", "FactSuggestionResolved"} ->
                        [dto EXCEPT !.current_phase = "matching"]
                  [] event.event_type = "PlanSelected" ->
                        [dto EXCEPT !.current_phase = "planning"]
                  [] event.event_type \in {"ActionIntent", "ActionResult"} ->
                        [dto EXCEPT !.current_phase = "executing"]
                  [] event.event_type = "FactAsserted" ->
                        IF event.has_details /\ event.fact # NoFact
                        THEN [dto EXCEPT !.current_phase = "matching",
                                         !.title = event.fact.title,
                                         !.severity = severity_to_string(event.fact.severity)]
                        ELSE [dto EXCEPT !.current_phase = "matching"]
                  [] OTHER -> dto
         IN  summarize_events(Tail(events), next)

summarize_incident(t, incident_id) ==
    summarize_events(events_for_incident(t, incident_id),
                     [id |-> incident_id, status |-> "active", severity |-> "high",
                      title |-> <<>>, current_phase |-> "observing"])

list_incidents(t) ==
    LET ids == all_incidents(t)
    IN  [n \in 1..Len(ids) |-> summarize_incident(t, ids[n])]

parse_severity(value) ==
    CASE Lower(value) = "low" -> "Low"
      [] Lower(value) = "medium" -> "Medium"
      [] Lower(value) = "critical" -> "Critical"
      [] OTHER -> "High"

\* ------------------------------------------------------- plan projections
\* a string member of the details; "" stands for a member that is missing
StrOr(member, default) == IF member = "" THEN default ELSE member

PlanStepDto(e) ==
    [name |-> e.name, effect |-> StrOr(e.effect, "Observe"),
     status |-> StrOr(e.status, "pending")]

\* steps.iter_mut().rev().find(|s| s.name == name), 0 for None
LastPosition(steps, name) ==
    IF \E k \in 1..Len(steps) : steps[k].name = name
    THEN CHOOSE k \in 1..Len(steps) :
            /\ steps[k].name = name
            /\ \A j \in (k + 1)..Len(steps) : steps[j].name # name
    ELSE 0

\* faulty variant: an event of a step already listed adds the step again
plan_steps_appended(events, steps) ==
    LET named == SelectSeq(events, LAMBDA e :
                     /\ e.event_type \in {"ActionIntent", "ActionResult", "Escalated"}
                     /\ e.has_details /\ e.name # "")
    IN  [k \in 1..Len(named) |-> PlanStepDto(named[k])]

RECURSIVE plan_steps(_, _)
\* the loop of get_current_plan over the incident's events
plan_steps(events, steps) ==
    IF events = <<>> THEN steps
    ELSE LET e == Head(events)
             existing == LastPosition(steps, e.name)
             next ==
                IF e.event_type \notin {"ActionIntent", "ActionResult", "Escalated"} THEN steps
                ELSE IF ~e.has_details THEN steps
                ELSE IF e.name = "" THEN steps
                ELSE IF existing # 0
                     THEN [steps EXCEPT ![existing].status = PlanStepDto(e).status,
                                        ![existing].effect = PlanStepDto(e).effect]
                     ELSE Append(steps, PlanStepDto(e))
         IN  plan_steps(Tail(events), next)

\* current_step counts from 0
get_current_plan(t, incident_id) ==
    LET steps == plan_steps(events_for_incident(t, incident_id), <<>>)
        running == {k \in 1..Len(steps) : steps[k].status = "running"}
    IN  [steps |-> steps,
         current_step |-> IF running # {} THEN (CHOOSE k \in running : \A j \in running : k <= j) - 1
                          ELSE IF Len(steps) = 0 THEN 0 ELSE Len(steps) - 1]

\* faulty variant: Escalated events give rows too
tool_call_events_with_escalations(events) ==
    SelectSeq(events, LAMBDA e : /\ e.event_type \in {"ActionIntent", "ActionResult", "Escalated"}
                                 /\ e.has_details)

\* the events get_tool_calls does not skip
tool_call_events(events) ==
    SelectSeq(events, LAMBDA e : /\ e.event_type \in {"ActionIntent", "ActionResult"}
                                 /\ e.has_details)

ToolCallDto(e) ==
    [event_id |-> e.id, incident_id |-> e.incident_id,
     tool_name |-> StrOr(e.name, "unknown"),
     phase |-> IF e.event_type = "ActionIntent" THEN "intent" ELSE "result",
     status |-> StrOr(e.status, "pending"), effect |-> StrOr(e.effect, "Observe")]

get_tool_calls(t, incident_id) ==
    LET kept == tool_call_events(events_for_incident(t, incident_id))
    IN  [k \in 1..Len(kept) |-> ToolCallDto(kept[k])]

\* ------------------------------------------------------------ UI commands
\* arguments the UI passes to upsert_alert_fact: fact id, title, severity, tags
ManualFacts ==
    { [id |-> "f1", severity |-> "CRITICAL", title |-> <<"CrashLoop", "BackOff">>, tags |-> <<>>],
      [id |-> "f1", severity |-> "bogus", title |-> <<"disk space low">>, tags |-> <<>>],
      [id |-> "inc-1", severity |-> "low", title |-> <<"OOM">>, tags |-> <<>>] }

RetractIds == {"f1", "inc-1"}

\* what suggest_facts may return: fact id, title, severity, tags (rationale left out)
SuggestionPool ==
    { <<>>,
      << [id |-> "f2", severity |-> "CRITICAL", title |-> <<"pod restarted">>, tags |-> <<>>] >>,
      << [id |-> "f2", severity |-> "CRITICAL", title |-> <<"pod restarted">>, tags |-> <<>>],
         [id |-> "f1", severity |-> "low", title |-> <<"OOM">>, tags |-> <<>>] >> }

Decisions == {"approve", "Approve", "reject"}

Responses == {"Approve", "Reject", "TakeOver"}

FactRetractedEvent(incident_id, fact_id) ==
    [Event(incident_id, "FactRetracted") EXCEPT !.has_details = TRUE, !.fact_id = fact_id]

FactSuggestedEvent(incident_id, s) ==
    [Event(incident_id, "FactSuggested") EXCEPT !.has_details = TRUE, !.fact = s]

FactSuggestionResolvedEvent(incident_id, suggestion_event_id, decision) ==
    [Event(incident_id, "FactSuggestionResolved") EXCEPT
        !.has_details = TRUE, !.ref = suggestion_event_id, !.decision = decision]

EscalationRespondedEvent(incident_id, response) ==
    [Event(incident_id, "EscalationResponded") EXCEPT !.has_details = TRUE, !.decision = response]

\* the command in progress; intents holds the step and row id of every
\* ActionIntent the execute_plan call of reprocess_incident has stored
IdleUi ==
    [pc |-> "idle", n |-> 0, op |-> "", incident_id |-> "", k |-> 0, decision |-> "",
     fact |-> NoFact, selected |-> <<>>, i |-> 0, pending |-> <<>>, ret |-> "",
     intents |-> <<>>]

\* the command returns
Return(op, ret) == [IdleUi EXCEPT !.n = ui.n + 1, !.op = op, !.ret = ret]

\* the command goes on to its next log access
Goto(op, pc) == [ui EXCEPT !.pc = pc, !.op = op]

UiIdle == ui.pc = "idle" /\ ui.n < limits.ui

\* a SELECT that fails with a storage error
ReadErr ==
    /\ faults > 0
    /\ faults' = faults - 1
    /\ UNCHANGED <<table, seq, returned>>

UiRest == <<config, agentVars, decision_ch, consumer, dispVars, limits>>

upsert_alert_fact ==
    /\ UiIdle
    /\ \E incident_id \in Incidents, f \in ManualFacts :
          LET fact == [f EXCEPT !.severity = parse_severity(f.severity)]
          IN  \/ AppendOk(FactAssertedEvent(incident_id, fact))
              \/ AppendErr
    /\ ui' = Return("upsert_alert_fact", IF table' = table THEN "err" ELSE "ok")
    /\ UNCHANGED UiRest

\* faulty variant: the retraction deletes the fact's FactAsserted rows
retract_fact_by_delete ==
    /\ UiIdle
    /\ \E incident_id \in Incidents, fact_id \in RetractIds :
          table' = SelectSeq(table, LAMBDA e : ~(/\ e.incident_id = incident_id
                                                /\ e.event_type = "FactAsserted"
                                                /\ e.fact.id = fact_id))
    /\ UNCHANGED <<seq, returned, faults>>
    /\ ui' = Return("retract_fact", "ok")
    /\ UNCHANGED UiRest

retract_fact ==
    /\ UiIdle
    /\ \E incident_id \in Incidents, fact_id \in RetractIds :
          \/ AppendOk(FactRetractedEvent(incident_id, fact_id))
          \/ AppendErr
    /\ ui' = Return("retract_fact", IF table' = table THEN "err" ELSE "ok")
    /\ UNCHANGED UiRest

respond_to_escalation ==
    /\ UiIdle
    /\ \E incident_id \in Incidents, response \in Responses :
          decision_ch' = Append(decision_ch, <<incident_id, response>>)
    /\ ui' = Return("respond_to_escalation", "ok")
    /\ UNCHANGED <<logVars, config, agentVars, consumer, dispVars, limits>>

\* generate_fact_suggestions up to the first append
generate_fact_suggestions ==
    /\ UiIdle
    /\ \E incident_id \in Incidents :
          \/ /\ ReadErr
             /\ ui' = Return("generate_fact_suggestions", "err")
          \/ /\ UNCHANGED logVars
             /\ LET facts == materialize_fact_map(events_for_incident(table, incident_id))
                IN  IF DOMAIN facts = {}
                    THEN ui' = Return("generate_fact_suggestions", "no active facts for incident")
                    ELSE IF ~config.llm
                    THEN ui' = Return("generate_fact_suggestions", "LLM is not configured")
                    ELSE \/ ui' = Return("generate_fact_suggestions", "llm prompt failed")
                         \/ \E suggestions \in SuggestionPool :
                               IF suggestions = <<>>
                               THEN ui' = Return("generate_fact_suggestions", "ok")
                               ELSE ui' = [Goto("generate_fact_suggestions", "gen") EXCEPT
                                              !.incident_id = incident_id,
                                              !.pending = suggestions]
    /\ UNCHANGED UiRest

\* generate_fact_suggestions: one pass of its append loop
GenAppend ==
    /\ ui.pc = "gen"
    /\ \/ /\ AppendOk(FactSuggestedEvent(ui.incident_id, Head(ui.pending)))
          /\ ui' = IF Tail(ui.pending) = <<>> THEN Return(ui.op, "ok")
                   ELSE [ui EXCEPT !.pending = Tail(@)]
       \/ /\ AppendErr
          /\ ui' = Return(ui.op, "err")
    /\ UNCHANGED UiRest

\* decide_fact_suggestion up to its first append
decide_fact_suggestion ==
    /\ UiIdle
    /\ \E incident_id \in Incidents, suggestion_event_id \in 0..seq, decision \in Decisions :
          \/ /\ ReadErr
             /\ ui' = Return("decide_fact_suggestion", "err")
          \/ /\ UNCHANGED logVars
             /\ LET events == events_for_incident(table, incident_id)
                    hits == {m \in 1..Len(events) :
                                /\ events[m].id = suggestion_event_id
                                /\ events[m].event_type = "FactSuggested"}
                IN  IF hits = {}
                    THEN ui' = Return("decide_fact_suggestion", "suggestion event not found")
                    ELSE LET suggested == events[CHOOSE m \in hits : \A h \in hits : m <= h]
                             args == [Goto("decide_fact_suggestion", "decide_resolve") EXCEPT
                                         !.incident_id = incident_id,
                                         !.k = suggestion_event_id,
                                         !.decision = decision]
                         IN  IF Lower(decision) = "approve"
                             THEN IF ~suggested.has_details
                                  THEN ui' = Return("decide_fact_suggestion",
                                                    "suggestion payload missing")
                                  ELSE ui' = [args EXCEPT
                                                 !.pc = "decide_assert",
                                                 !.fact = [suggested.fact EXCEPT !.severity =
                                                              parse_severity(suggested.fact.severity)]]
                             ELSE ui' = args
    /\ UNCHANGED UiRest

\* faulty variant: the fact of an approved suggestion is not asserted
DecideAssertNothing ==
    /\ ui.pc = "decide_assert"
    /\ UNCHANGED logVars
    /\ ui' = [ui EXCEPT !.pc = "decide_resolve"]
    /\ UNCHANGED UiRest

\* decide_fact_suggestion: the FactAsserted of an approved suggestion
DecideAssert ==
    /\ ui.pc = "decide_assert"
    /\ \/ /\ AppendOk(FactAssertedEvent(ui.incident_id, ui.fact))
          /\ ui' = [ui EXCEPT !.pc = "decide_resolve"]
       \/ /\ AppendErr
          /\ ui' = Return(ui.op, "err")
    /\ UNCHANGED UiRest

\* decide_fact_suggestion: the FactSuggestionResolved event
DecideResolve ==
    /\ ui.pc = "decide_resolve"
    /\ \/ /\ AppendOk(FactSuggestionResolvedEvent(ui.incident_id, ui.k, ui.decision))
          /\ ui' = Return(ui.op, "ok")
       \/ /\ AppendErr
          /\ ui' = Return(ui.op, "err")
    /\ UNCHANGED UiRest

\* faulty variant: a fact without a built-in runbook gets an empty plan
reprocess_with_empty_plan ==
    /\ UiIdle
    /\ \E incident_id \in Incidents :
          \/ /\ ReadErr
             /\ ui' = Return("reprocess_incident", "err")
          \/ /\ UNCHANGED logVars
             /\ LET fact_map == materialize_fact_map(events_for_incident(table, incident_id))
                IN  IF DOMAIN fact_map = {}
                    THEN ui' = Return("reprocess_incident", "no active facts for incident")
                    ELSE LET fact == FirstValue(fact_map)
                             selection == select_runbook(detect_pattern(fact), BuiltinRunbooks)
                         IN  ui' = [Goto("reprocess_incident", "re_plan") EXCEPT
                                       !.incident_id = incident_id,
                                       !.fact = fact,
                                       !.selected = selection.steps]
    /\ UNCHANGED UiRest

\* reprocess_incident up to its first append
reprocess_incident ==
    /\ UiIdle
    /\ \E incident_id \in Incidents :
          \/ /\ ReadErr
             /\ ui' = Return("reprocess_incident", "err")
          \/ /\ UNCHANGED logVars
             /\ LET fact_map == materialize_fact_map(events_for_incident(table, incident_id))
                IN  IF DOMAIN fact_map = {}
                    THEN ui' = Return("reprocess_incident", "no active facts for incident")
                    ELSE LET fact == FirstValue(fact_map)
                             selection == select_runbook(detect_pattern(fact), BuiltinRunbooks)
                         IN  IF selection = NoRunbook
                             THEN ui' = Return("reprocess_incident",
                                               "no matching deterministic runbook")
                             ELSE ui' = [Goto("reprocess_incident", "re_plan") EXCEPT
                                            !.incident_id = incident_id,
                                            !.fact = fact,
                                            !.selected = selection.steps]
    /\ UNCHANGED UiRest

\* reprocess_incident: its PlanSelected event
RePlan ==
    /\ ui.pc = "re_plan"
    /\ \/ /\ AppendOk(PlanSelectedEvent(ui.incident_id))
          /\ ui' = IF ui.selected = <<>> THEN [ui EXCEPT !.pc = "re_resolved"]
                   ELSE [ui EXCEPT !.pc = "re_intent", !.i = 1]
       \/ /\ AppendErr
          /\ ui' = Return(ui.op, "err")
    /\ UNCHANGED UiRest

\* reprocess_incident in execute_plan: the ActionIntent of step i
ReIntent ==
    /\ ui.pc = "re_intent"
    /\ \/ /\ AppendOk(ActionIntentEvent(ui.incident_id, ui.selected[ui.i]))
          /\ ui' = [ui EXCEPT !.pc = "re_result",
                              !.intents = Append(@, [step |-> ui.i, id |-> NextRowId(seq)])]
       \/ /\ AppendErr
          /\ ui' = [ui EXCEPT !.pc = "re_result"]
    /\ UNCHANGED UiRest

\* reprocess_incident in execute_plan: the stub executor answers Ok, the
\* ActionResult of step i is appended, then the next step or the return
ReResult ==
    /\ ui.pc = "re_result"
    /\ AppendOk(ActionResultEvent(ui.incident_id, ui.selected[ui.i], "ok")) \/ AppendErr
    /\ ui' = IF ui.i < Len(ui.selected) THEN [ui EXCEPT !.pc = "re_intent", !.i = ui.i + 1]
             ELSE [ui EXCEPT !.pc = "re_resolved"]
    /\ UNCHANGED UiRest

\* reprocess_incident: execute_plan returned Ok(())
ReResolved ==
    /\ ui.pc = "re_resolved"
    /\ \/ /\ AppendOk(ResolvedEvent(ui.incident_id))
          /\ ui' = Return(ui.op, "ok")
       \/ /\ AppendErr
          /\ ui' = Return(ui.op, "err")
    /\ UNCHANGED UiRest

UiNext ==
    \/ upsert_alert_fact \/ retract_fact \/ respond_to_escalation
    \/ generate_fact_suggestions \/ GenAppend
    \/ decide_fact_suggestion \/ DecideAssert \/ DecideResolve
    \/ reprocess_incident \/ RePlan \/ ReIntent \/ ReResult \/ ReResolved

\* ------------------------------------------------------ decision consumer
IdleConsumer == [pc |-> "recv", incident_id |-> "", response |-> ""]

ConsumerRest == <<config, agentVars, ui, dispVars, limits>>

ConsumerRecv ==
    /\ consumer.pc = "recv"
    /\ decision_ch # <<>>
    /\ decision_ch' = Tail(decision_ch)
    /\ consumer' = [pc |-> "respond", incident_id |-> Head(decision_ch)[1],
                    response |-> Head(decision_ch)[2]]
    /\ UNCHANGED <<logVars, ConsumerRest>>

\* append_escalation_response_event, its result dropped
ConsumerRespond ==
    /\ consumer.pc = "respond"
    /\ AppendOk(EscalationRespondedEvent(consumer.incident_id, consumer.response)) \/ AppendErr
    /\ consumer' = IF consumer.response = "Approve" THEN [consumer EXCEPT !.pc = "resolve"]
                   ELSE IdleConsumer
    /\ UNCHANGED <<decision_ch, ConsumerRest>>

ConsumerResolve ==
    /\ consumer.pc = "resolve"
    /\ AppendOk(ResolvedEvent(consumer.incident_id)) \/ AppendErr
    /\ consumer' = IdleConsumer
    /\ UNCHANGED <<decision_ch, ConsumerRest>>

ConsumerNext == ConsumerRecv \/ ConsumerRespond \/ ConsumerResolve

\* ------------------------------------------------------------ dispatcher
Notification(name, e) == [name |-> name, id |-> e.id, incident_id |-> e.incident_id]

\* faulty variant: an ActionIntent is announced like an ActionResult
NotificationsForIntentsToo(e) ==
    CASE e.event_type = "PlanSelected" -> <<Notification("plan-selected", e)>>
      [] e.event_type \in {"ActionIntent", "ActionResult"} ->
            <<Notification("action-completed", e)>>
      [] e.event_type = "Escalated" -> <<Notification("escalation-required", e)>>
      [] e.event_type = "Resolved" -> <<Notification("incident-resolved", e)>>
      [] OTHER -> <<>>

\* the notification emit_updates sends for one event, if any
NotificationsFor(e) ==
    CASE e.event_type = "PlanSelected" -> <<Notification("plan-selected", e)>>
      [] e.event_type = "ActionResult" -> <<Notification("action-completed", e)>>
      [] e.event_type = "Escalated" -> <<Notification("escalation-required", e)>>
      [] e.event_type = "Resolved" -> <<Notification("incident-resolved", e)>>
      [] OTHER -> <<>>

RECURSIVE EmitAll(_)
EmitAll(events) ==
    IF events = <<>> THEN <<>> ELSE NotificationsFor(Head(events)) \o EmitAll(Tail(events))

\* faulty variant: last_id moves to the first event of the tick only
AdvanceToFirstId(last_id, events) ==
    IF events = <<>> THEN last_id ELSE Head(events).id

RECURSIVE AdvanceLastId(_, _)
\* runtime.rs 117-121, over the events of one tick
AdvanceLastId(last_id, events) ==
    IF events = <<>> THEN last_id
    ELSE AdvanceLastId(IF Head(events).id > last_id THEN Head(events).id ELSE last_id,
                       Tail(events))

DispRest == <<config, agentVars, uiVars, limits>>

\* start_with_sink: the thread reads latest_event_id once; an error counts as 0
DispStart ==
    /\ limits.observers
    /\ disp.pc = "start"
    /\ \/ /\ UNCHANGED logVars
          /\ disp' = [pc |-> "tick", last_id |-> latest_event_id(table),
                       start_id |-> latest_event_id(table)]
       \/ /\ ReadErr
          /\ disp' = [pc |-> "tick", last_id |-> 0, start_id |-> 0]
    /\ UNCHANGED <<sink, DispRest>>

\* emit_updates, first half: beliefs-updated with the active incident count;
\* updates counts the beliefs-updated notifications of the tick this starts
DispTick ==
    /\ disp.pc = "tick"
    /\ \/ /\ UNCHANGED logVars
          /\ sink' = [sink EXCEPT !.beliefs = Cardinality(active_incidents(table)),
                                  !.updates = 1]
       \/ /\ ReadErr
          /\ sink' = [sink EXCEPT !.beliefs = 0, !.updates = 1]
    /\ disp' = [disp EXCEPT !.pc = "scan"]
    /\ UNCHANGED DispRest

\* emit_updates, second half: the events after last_id, then the sleep
DispScan ==
    /\ disp.pc = "scan"
    /\ \/ /\ UNCHANGED logVars
          /\ \E events \in {events_after(table, disp.last_id)} :
                /\ disp' = [disp EXCEPT !.pc = "tick",
                                        !.last_id = AdvanceLastId(disp.last_id, events)]
                /\ sink' = [sink EXCEPT !.events = @ \o EmitAll(events)]
       \/ /\ ReadErr
          /\ disp' = [disp EXCEPT !.pc = "tick"]
          /\ UNCHANGED sink
    /\ UNCHANGED DispRest

DispNext == DispStart \/ DispTick \/ DispScan

\* the escalation consumer of start_tauri_runtime: one notification per request
EscalationRecv ==
    /\ limits.observers
    /\ escalation_ch # <<>>
    /\ escalation_ch' = Tail(escalation_ch)
    /\ sink' = [sink EXCEPT !.events =
                   Append(@, [name |-> "escalation-required", id |-> 0,
                              incident_id |-> Head(escalation_ch).incident_id])]
    /\ UNCHANGED <<logVars, config, fact_ch, senders_open, sent, http, agent, recent_facts, proc,
                   uiVars, disp, limits>>

\* EventLog::open on the existing database: CREATE TABLE IF NOT EXISTS keeps the rows
OpenLog ==
    /\ table' = table
    /\ seq' = seq
    /\ UNCHANGED <<returned, faults, config, agentVars, uiVars, dispVars, limits>>

\* the EventType enum
EventTypes ==
    {"FactAsserted", "FactRetracted", "FactSuggested", "FactSuggestionResolved",
     "PlanSelected", "ActionIntent", "ActionResult", "Escalated", "EscalationResponded",
     "Resolved"}

\* EventLog::append called by any thread with an event of any type
append ==
    /\ \/ \E event_type \in EventTypes : AppendOk(Event("inc-1", event_type))
       \/ AppendErr
    /\ UNCHANGED <<config, agentVars, uiVars, dispVars, limits>>

\* --------------------------------------------------------- specifications
InitCommon ==
    /\ table = <<>>
    /\ seq = 0
    /\ returned = <<>>
    /\ fact_ch = <<>>
    /\ senders_open = TRUE
    /\ sent = <<>>
    /\ http = <<>>
    /\ escalation_ch = <<>>
    /\ agent = IdleAgent
    /\ recent_facts = <<>>
    /\ proc = NoProc
    /\ ui = IdleUi
    /\ decision_ch = <<>>
    /\ consumer = IdleConsumer
    /\ disp = [pc |-> "start", last_id |-> 0, start_id |-> 0]
    /\ sink = [beliefs |-> -1, updates |-> 0, events |-> <<>>]

\* the agent loop with its webhook producers, tool executor and LLM; storage works
InitAgent ==
    /\ InitCommon
    /\ faults = 0
    /\ config \in ConfigPool
    /\ limits = [facts |-> MaxFacts, ui |-> 0, rows |-> 8 * MaxFacts, observers |-> FALSE,
                 faults |-> 0, tools |-> ToolOutcomes]

NextAgent == AgentNext \/ WebhookSend \/ DropSenders

SpecAgent == InitAgent /\ [][NextAgent]_vars

\* run_agent has a thread of its own, and every call it makes to the tool
\* executor, the LLM and the log returns: a step the loop can take, it takes
SpecAgentFair == SpecAgent /\ WF_vars(AgentNext)

\* What the environment does in one behaviour of the whole runtime: one UI
\* command races the agent loop, or some appends of the agent loop fail, or the
\* UI issues commands one after the other, or the dispatcher and the
\* escalation consumer observe the agent loop.
Profiles ==
    { [facts |-> MaxSysFacts, ui |-> 1, rows |-> MaxLog, observers |-> FALSE, faults |-> 0,
       tools |-> StubOutcomes],
      [facts |-> MaxSysFacts, ui |-> 0, rows |-> MaxLog, observers |-> FALSE,
       faults |-> MaxStorageErrs, tools |-> StubOutcomes],
      [facts |-> 0, ui |-> MaxUiOps, rows |-> MaxLog, observers |-> FALSE, faults |-> 0,
       tools |-> StubOutcomes],
      [facts |-> MaxSysFacts, ui |-> 0, rows |-> MaxLog, observers |-> TRUE, faults |-> 0,
       tools |-> StubOutcomes] }

\* the whole desktop runtime: agent loop, webhook endpoints, UI commands,
\* decision consumer, escalation consumer and dispatcher on one log. The router
\* keeps its Sender<Fact> for as long as the process lives, and the tool
\* executor is the runtime's stub, so execute_plan never returns Err here.
Init ==
    /\ InitCommon
    /\ config \in RuntimeConfigs
    /\ limits \in Profiles
    /\ faults = limits.faults

Next ==
    \/ AgentRecv \/ AgentAssert
    \/ AgentPlanRunbook \/ AgentPlanLlm \/ AgentPlanLlmFail \/ AgentNoRunbook
    \/ AgentEscSend \/ AgentEscLog
    \/ AgentIntent \/ AgentTool \/ AgentResult
    \/ AgentResolved
    \/ WebhookSend
    \/ UiNext \/ ConsumerNext \/ DispNext \/ EscalationRecv \/ OpenLog

Spec == Init /\ [][Next]_vars

\* the dispatcher beside the agent loop and the webhook endpoints, with a
\* storage error in a read of the dispatcher or an append of the agent
InitDispatcher ==
    /\ InitCommon
    /\ config \in RuntimeConfigs
    /\ limits = [facts |-> MaxSysFacts, ui |-> 0, rows |-> MaxLog, observers |-> TRUE,
                 faults |-> 1, tools |-> StubOutcomes]   \* one storage error
    /\ faults = limits.faults

NextDispatcher ==
    \/ AgentRecv \/ AgentAssert
    \/ AgentPlanRunbook \/ AgentPlanLlm \/ AgentPlanLlmFail \/ AgentNoRunbook
    \/ AgentEscSend \/ AgentEscLog
    \/ AgentIntent \/ AgentTool \/ AgentResult
    \/ AgentResolved
    \/ WebhookSend
    \/ DispNext \/ EscalationRecv \/ OpenLog

\* the dispatcher tailing a log that other threads append events of every
\* type to, with a storage error in one read or append
InitLogTail ==
    /\ InitCommon
    /\ config = RuntimeConfig(FALSE)
    /\ limits = [facts |-> 0, ui |-> 0, rows |-> MaxTailLog, observers |-> TRUE,
                 faults |-> 1, tools |-> StubOutcomes]   \* one storage error
    /\ faults = limits.faults

NextLogTail == append \/ DispNext \/ OpenLog

SpecLogTail == InitLogTail /\ [][NextLogTail]_vars

\* the webhook server: the router's four endpoints in front of the agent loop,
\* whose thread may end by a panic of the tool executor; storage works
InitServer ==
    /\ InitCommon
    /\ faults = 0
    /\ config = RuntimeConfig(FALSE)
    /\ limits = [facts |-> MaxRequests, requests |-> MaxRequests, ui |-> 0,
                 rows |-> 8 * MaxRequests, observers |-> FALSE, faults |-> 0,
                 tools |-> StubOutcomes]

NextServer ==
    \/ AgentRecv \/ AgentAssert
    \/ AgentPlanRunbook \/ AgentNoRunbook
    \/ AgentEscSend \/ AgentEscLog
    \/ AgentIntent \/ AgentTool \/ AgentToolPanic \/ AgentResult
    \/ AgentResolved
    \/ handle_webhook

SpecServer == InitServer /\ [][NextServer]_vars

\* one incident processed live by the agent loop and reprocessed by the UI
\* command, in any interleaving; storage works
InitReprocess ==
    /\ InitCommon
    /\ faults = 0
    /\ config \in RuntimeConfigs
    /\ limits = [facts |-> MaxSysFacts, ui |-> 1, rows |-> 2 * MaxLog, observers |-> FALSE,
                 faults |-> 0, tools |-> StubOutcomes]

NextReprocess ==
    \/ AgentRecv \/ AgentAssert
    \/ AgentPlanRunbook \/ AgentPlanLlm \/ AgentPlanLlmFail \/ AgentNoRunbook
    \/ AgentEscSend \/ AgentEscLog
    \/ AgentIntent \/ AgentTool \/ AgentResult
    \/ AgentResolved
    \/ WebhookSend
    \/ reprocess_incident \/ RePlan \/ ReIntent \/ ReResult \/ ReResolved

SpecReprocess == InitReprocess /\ [][NextReprocess]_vars

\* events a caller of EventLog::append may store about the steps of a plan:
\* those execute_plan and the agent loop write, and ActionIntent and
\* ActionResult events whose details are None
ActionEventPool ==
    LET inspect == crashloop_runbook[1]
        rollback == crashloop_runbook[2]
    IN  { ActionIntentEvent("inc-1", inspect), ActionResultEvent("inc-1", inspect, "ok"),
          ActionIntentEvent("inc-1", rollback), ActionResultEvent("inc-1", rollback, "boom"),
          EscalatedEvent("inc-1", rollback, "boom"),
          Event("inc-1", "ActionIntent"), Event("inc-1", "ActionResult"),
          ActionIntentEvent("inc-2", inspect) }

append_action_event ==
    /\ \E event \in ActionEventPool : AppendOk(event)
    /\ UNCHANGED <<config, agentVars, uiVars, dispVars, limits>>

\* a log of action events under the read commands; storage works
InitToolLog ==
    /\ InitCommon
    /\ faults = 0
    /\ config = RuntimeConfig(FALSE)
    /\ limits = [facts |-> 0, ui |-> 0, rows |-> MaxToolLog, observers |-> FALSE,
                 faults |-> 0, tools |-> StubOutcomes]

NextToolLog == append_action_event

SpecToolLog == InitToolLog /\ [][NextToolLog]_vars

\* the agent loop under a burst of more alerts than its window holds; storage works
InitBurst ==
    /\ InitCommon
    /\ faults = 0
    /\ config = RuntimeConfig(FALSE)
    /\ limits = [facts |-> MaxBurst, ui |-> 0, rows |-> 8 * MaxBurst, observers |-> FALSE,
                 faults |-> 0, tools |-> StubOutcomes]

NextBurst ==
    \/ AgentRecv \/ AgentAssert
    \/ AgentPlanRunbook \/ AgentNoRunbook
    \/ AgentEscSend \/ AgentEscLog
    \/ AgentIntent \/ AgentTool \/ AgentResult
    \/ AgentResolved
    \/ WebhookBurst

SpecBurst == InitBurst /\ [][NextBurst]_vars

\* what an LLM may put into candidate_actions and actions: names of configured
\* actions and a name that is no action, in any order, with repetitions
LlmNames == {"inspect-pod-logs", "rollback-deployment", "inspect-memory-metrics",
             "delete-cluster"}

NameLists == UNION {[1..n -> LlmNames] : n \in 0..MaxNames}

\* one call of propose_and_validate after the provider answered
Propose ==
    /\ proc.via = ""
    /\ \E names \in NameLists, candidate_actions \in NameLists :
          proc' = [proc EXCEPT
                      !.via = "llm", !.llm = "ok", !.names = names, !.cands = candidate_actions,
                      !.plan = propose_and_validate(names, candidate_actions,
                                                    known_actions(config))]
    /\ UNCHANGED <<logVars, config, fact_ch, senders_open, sent, http, escalation_ch, agent,
                   recent_facts, uiVars, dispVars, limits>>

\* propose_and_validate on its own, for every configuration of the pool
InitPropose ==
    /\ InitCommon
    /\ faults = 0
    /\ config \in ConfigPool
    /\ limits = [facts |-> 0, ui |-> 0, rows |-> 0, observers |-> FALSE,
                 faults |-> 0, tools |-> StubOutcomes]

NextPropose == Propose

SpecPropose == InitPropose /\ [][NextPropose]_vars

\* words of alert titles and tags: the keys of detect_pattern in both cases,
\* and words that hold none of them
TitleWords == {"CrashLoop", "crashloop", "OOM", "Out Of Memory", "Pod ", "disk space low"}

Titles == UNION {[1..n -> TitleWords] : n \in 0..MaxWords}

TagLists == {<<>>} \cup {<< <<w>> >> : w \in {"crashloop", "OOM", "k8s"}}
               \cup {<< <<"k8s">>, <<"CrashLoop">> >>, << <<"oom">>, <<"k8s">> >>}

\* runbooks a caller may configure, under names that match a key, both keys or none
NamedRunbooks ==
    { [name |-> <<"crashloop", "_runbook">>, steps |-> crashloop_runbook],
      [name |-> <<"CrashLoop", "-v2">>, steps |-> <<Action("restart-pod", "Mutate")>>],
      [name |-> <<"oom", "kill", "_runbook">>, steps |-> oomkill_runbook],
      [name |-> <<"OOM", "kill", "-or-", "crashloop">>,
       steps |-> <<Action("drain-node", "Irreversible")>>],
      [name |-> <<"disk", "_runbook">>, steps |-> <<Action("free-disk", "Mutate")>>] }

RunbookLists == UNION {[1..n -> NamedRunbooks] : n \in 0..MaxRunbooks}

\* agent.rs 53-54 on their own: detect_pattern, then select_runbook
Classify ==
    /\ proc.pattern = ""
    /\ \E title \in Titles, tags \in TagLists :
          LET fact == [id |-> "inc-1", severity |-> "High", title |-> title, tags |-> tags]
              pattern == detect_pattern(fact)
          IN  proc' = [proc EXCEPT !.fact = fact, !.pattern = pattern,
                                   !.runbook = select_runbook(pattern, config.runbooks)]
    /\ UNCHANGED <<logVars, config, fact_ch, senders_open, sent, http, escalation_ch, agent,
                   recent_facts, uiVars, dispVars, limits>>

\* the two planning calls for every alert and every list of runbooks of the pools
InitRules ==
    /\ InitCommon
    /\ faults = 0
    /\ \E runbooks \in RunbookLists :
          config = [max_replan_attempts |-> 3, runbooks |-> runbooks, all_actions |-> <<>>,
                    llm |-> FALSE]
    /\ limits = [facts |-> 0, ui |-> 0, rows |-> 0, observers |-> FALSE,
                 faults |-> 0, tools |-> StubOutcomes]

NextRules == Classify

SpecRules == InitRules /\ [][NextRules]_vars

\* the three methods of Effect, called on every effect of a list
Weigh ==
    /\ proc.weighed = <<>>
    /\ \E n \in 1..MaxEffects : \E es \in [1..n -> {Effects[k] : k \in 1..Len(Effects)}] :
          proc' = [proc EXCEPT !.weighed =
                      [i \in 1..n |-> [effect |-> es[i],
                                       recovery |-> recovery(es[i]),
                                       backtrackable |-> backtrackable(es[i]),
                                       cost_weight |-> cost_weight(es[i])]]]
    /\ UNCHANGED <<logVars, config, fact_ch, senders_open, sent, http, escalation_ch, agent,
                   recent_facts, uiVars, dispVars, limits>>

InitEffects ==
    /\ InitCommon
    /\ faults = 0
    /\ config = RuntimeConfig(FALSE)
    /\ limits = [facts |-> 0, ui |-> 0, rows |-> 0, observers |-> FALSE,
                 faults |-> 0, tools |-> StubOutcomes]

NextEffects == Weigh

SpecEffects == InitEffects /\ [][NextEffects]_vars

\* the dispatcher thread loops forever over emit_updates and a 750 ms sleep,
\* so a tick that can be taken is taken
SpecDispatcher == InitDispatcher /\ [][NextDispatcher]_vars /\ WF_vars(DispNext)

\* ------------------------------------------------------------ properties
Rows == 1..Len(table)

IsPrefix(s, t) == Len(s) <= Len(t) /\ SubSeq(t, 1, Len(s)) = s

\* the rows of incident i in the order their appends completed
AppendOrder(i) == SelectSeq(table, LAMBDA e : e.incident_id = i)

Ascending(rows) == \A a, b \in 1..Len(rows) : a < b => rows[a].id < rows[b].id

\* C1: the ids append returns are strictly increasing over the lifetime of the
\* log, each is the id of the row that append stored, no two rows share an id,
\* and events_for_incident returns the incident's rows in ascending id order,
\* which is the order in which they were appended.
C1_IdsIncreaseInAppendOrder ==
    /\ \A a, b \in 1..Len(returned) : a < b => returned[a] < returned[b]
    /\ Len(returned) = Len(table)
    /\ \A k \in Rows : table[k].id = returned[k]
    /\ \A a, b \in Rows : a # b => table[a].id # table[b].id
    /\ \A i \in Incidents :
          /\ Ascending(events_for_incident(table, i))
          /\ events_for_incident(table, i) = AppendOrder(i)

\* the agent loop and a UI command have both appended to one incident, the
\* command between two appends of the loop
C1_InterleavedWriters ==
    \E a, b, c \in Rows :
        /\ a < b /\ b < c
        /\ table[a].incident_id = "inc-1" /\ table[a].event_type = "PlanSelected"
        /\ table[b].incident_id = "inc-1" /\ table[b].event_type = "FactRetracted"
        /\ table[c].incident_id = "inc-1" /\ table[c].event_type = "ActionResult"
        /\ Len(events_for_incident(table, "inc-1")) >= 4

\* C2: the log is append-only: every step of every writer (agent loop and
\* executor, retract_fact, decide_fact_suggestion, reprocess_incident, decision
\* consumer, dispatcher) leaves the rows already stored where and as they were,
\* so the log of a state extends the log of every earlier state.
C2_AppendOnly == [][IsPrefix(table, table')]_vars

\* a fact was asserted and then retracted, and an incident that was resolved
\* got a later event: the asserted fact and the Resolved row are still there
C2_RetractedAndReopened ==
    /\ \E a, b \in Rows :
          /\ a < b
          /\ table[a].event_type = "FactAsserted"
          /\ table[b].event_type = "FactRetracted"
          /\ table[b].incident_id = table[a].incident_id
          /\ table[b].fact_id = table[a].fact.id
    /\ \E a, b \in Rows :
          /\ a < b
          /\ table[a].event_type = "Resolved"
          /\ table[b].incident_id = table[a].incident_id

\* C3: for every k, events_after(k) returns exactly the rows whose id is
\* greater than k, each once, in ascending id order.
C3_EventsAfter ==
    \A k \in -1..(seq + 1) :
        LET got == events_after(table, k)
        IN  /\ {got[n] : n \in 1..Len(got)} = {table[m] : m \in {r \in Rows : table[r].id > k}}
            /\ Len(got) = Cardinality({r \in Rows : table[r].id > k})
            /\ Ascending(got)

\* three writers' rows are in the log and a cursor in the middle splits them
C3_CursorInTheMiddle ==
    /\ Len(table) >= 4
    /\ Len(events_after(table, table[2].id)) = Len(table) - 2
    /\ events_after(table, table[2].id)[1] = table[3]
    /\ events_after(table, seq) = <<>>

\* C4: active_incidents holds an incident id exactly if the log has at least
\* one row for it and no Resolved row for it.
C4_ActiveIncidents ==
    \A i \in Incidents \cup {""} :
        i \in active_incidents(table)
            <=> /\ \E k \in Rows : table[k].incident_id = i
                /\ ~\E k \in Rows : table[k].incident_id = i /\ table[k].event_type = "Resolved"

\* one incident is escalated and still active while the other is resolved
C4_EscalatedActiveResolvedNot ==
    /\ \E k \in Rows : table[k].event_type = "Escalated" /\ table[k].incident_id = "inc-2"
    /\ "inc-2" \in active_incidents(table)
    /\ \E k \in Rows : table[k].incident_id = "inc-1"
    /\ "inc-1" \notin active_incidents(table)

\* ---------------------------------------------- properties of the agent loop
\* what the claims say about one logged event: type, action name, the status
\* of an ActionResult, error and reason
Brief(e) ==
    <<e.event_type, e.name, IF e.event_type = "ActionResult" THEN e.status ELSE "",
      e.error, e.reason>>

Trace == [k \in 1..Len(proc.events) |-> Brief(proc.events[k])]

\* the runbook the configuration offers for the fact being processed
Offered == select_runbook(detect_pattern(proc.fact), config.runbooks)

\* the loop is the only writer: what it appended for the fact is the end of the log
LoggedLast ==
    /\ Len(proc.events) <= Len(table)
    /\ SubSeq(table, Len(table) - Len(proc.events) + 1, Len(table)) = proc.events
    /\ \A k \in 1..Len(proc.events) : proc.events[k].incident_id = proc.fact.id

\* the loop is back at recv: it takes the next fact, or ends with the channel
AtRecv ==
    \/ agent.pc = "recv"
    \/ agent.pc = "stopped" /\ fact_ch = <<>> /\ ~senders_open

\* FactAsserted, PlanSelected, then intent and result of the first n steps
Started(steps, n, lastStatus, lastError) ==
    [k \in 1..(2 * n + 2) |->
        IF k = 1 THEN <<"FactAsserted", "", "", "", "">>
        ELSE IF k = 2 THEN <<"PlanSelected", "", "", "", "">>
        ELSE IF k % 2 = 1 THEN <<"ActionIntent", steps[(k - 1) \div 2].name, "", "", "">>
        ELSE IF k = 2 * n + 2
             THEN <<"ActionResult", steps[n].name, lastStatus, lastError, "">>
             ELSE <<"ActionResult", steps[(k - 2) \div 2].name, "done", "", "">>]

StepNames(steps, n) == [k \in 1..n |-> steps[k].name]

AllOk == \A k \in 1..Len(proc.outs) : proc.outs[k] = "ok"

\* C5: a fact whose pattern selects a configured runbook, every tool call
\* succeeding: the loop appends exactly FactAsserted, PlanSelected, then for
\* each step in order ActionIntent and ActionResult(done), then Resolved; it
\* appends no Escalated event and sends no EscalationRequest.
C5_HappyPath ==
    (proc.done /\ Offered # NoRunbook /\ AllOk) =>
        LET steps == Offered.steps
        IN  /\ Trace = Started(steps, Len(steps), "done", "")
                           \o << <<"Resolved", "", "", "", "">> >>
            /\ LoggedLast
            /\ proc.tools = StepNames(steps, Len(steps))
            /\ proc.requests = <<>>

\* a crash-loop fact was resolved by the two steps of the crashloop runbook
C5_CrashLoopResolved ==
    /\ proc.done
    /\ proc.fact = CrashFact
    /\ Offered # NoRunbook
    /\ proc.outs = <<"ok", "ok">>
    /\ proc.events[Len(proc.events)].event_type = "Resolved"

FirstFailure == CHOOSE k \in 1..Len(proc.outs) :
                    /\ proc.outs[k] # "ok"
                    /\ \A m \in 1..(k - 1) : proc.outs[m] = "ok"

\* C6: the tool call of step k returns Err(e): the loop appends FactAsserted,
\* PlanSelected, the intent and done result of every step before k,
\* ActionIntent of step k, ActionResult(failed, error e), Escalated(name of
\* step k, reason e); no step after k is started, no Resolved is appended, and
\* exactly one EscalationRequest {incident, reason e} is sent.
C6_StepFailure ==
    (proc.done /\ ~AllOk) =>
        LET k == FirstFailure
            e == proc.outs[k]
        IN  /\ Len(proc.outs) = k
            /\ Trace = Started(proc.plan, k, "failed", e)
                           \o << <<"Escalated", proc.plan[k].name, "", "", e>> >>
            /\ LoggedLast
            /\ proc.tools = StepNames(proc.plan, k)
            /\ proc.requests = <<EscalationRequest(proc.fact.id, e)>>
            /\ Offered # NoRunbook => proc.plan = Offered.steps

\* the second step of a runbook failed after the first one succeeded
C6_SecondStepFailed ==
    /\ proc.done
    /\ proc.outs = <<"ok", "boom">>
    /\ Offered # NoRunbook
    /\ proc.events[Len(proc.events)].event_type = "Escalated"

\* C7: no runbook matches the fact and no LLM is configured: the loop appends
\* exactly FactAsserted and Escalated(reason "no matching runbook"), invokes
\* no tool, sends exactly one EscalationRequest with that reason, and goes on
\* to receive the next fact.
C7_NoRunbookNoLlm ==
    (proc.done /\ Offered = NoRunbook /\ ~config.llm) =>
        /\ Trace = << <<"FactAsserted", "", "", "", "">>,
                      <<"Escalated", "", "", "", "no matching runbook">> >>
        /\ LoggedLast
        /\ proc.tools = <<>>
        /\ proc.requests = <<EscalationRequest(proc.fact.id, "no matching runbook")>>
        /\ AtRecv

\* a generic fact was escalated for want of a runbook, and then an OOM fact for
\* which the configuration has no runbook by name was escalated too
C7_TwoEscalatedInARow ==
    /\ proc.done
    /\ proc.n = 2
    /\ proc.prev = "no matching runbook"
    /\ proc.fact = OomFact
    /\ detect_pattern(proc.fact) # "Generic"
    /\ Offered = NoRunbook
    /\ ~config.llm
    /\ Len(proc.requests) = 1

KnownNames == {known_actions(config)[k].name : k \in 1..Len(known_actions(config))}

\* C8: every step of a plan propose_and_validate returns is an action of
\* all_actions (the configured runbook actions, or the default actions when
\* none is configured), so on the LLM path every ActionIntent and every tool
\* call names a whitelisted action, whatever names the provider returned.
C8_LlmPlanWhitelisted ==
    /\ \A names \in ProposalPool, candidate_actions \in CandidatePool :
          LET plan == propose_and_validate(names, candidate_actions, known_actions(config))
          IN  \A k \in 1..Len(plan) : InSeq(plan[k], known_actions(config))
    /\ proc.via = "llm" =>
          /\ \A k \in 1..Len(proc.plan) : InSeq(proc.plan[k], known_actions(config))
          /\ \A k \in 1..Len(agent.selected) : InSeq(agent.selected[k], known_actions(config))
          /\ \A k \in 1..Len(proc.tools) : proc.tools[k] \in KnownNames
          /\ \A k \in 1..Len(proc.events) :
                proc.events[k].event_type = "ActionIntent" => proc.events[k].name \in KnownNames

\* the provider named an action outside the whitelist among others, and the
\* plan was executed
C8_UnknownNameProposed ==
    /\ proc.done
    /\ proc.via = "llm"
    /\ InSeq("delete-cluster", proc.names)
    /\ "delete-cluster" \notin KnownNames
    /\ Len(proc.tools) >= 2

\* C9: no runbook matches and the LLM path yields no plan (interpret fails,
\* propose_and_validate fails, or the plan is empty): the loop appends
\* FactAsserted and Escalated(reason "no valid llm plan") and nothing else,
\* invokes no tool, sends one EscalationRequest with that reason, and goes on
\* to receive the next fact.
C9_NoValidLlmPlan ==
    (proc.done /\ Offered = NoRunbook /\ config.llm /\ proc.llm # "ok") =>
        /\ Trace = << <<"FactAsserted", "", "", "", "">>,
                      <<"Escalated", "", "", "", "no valid llm plan">> >>
        /\ LoggedLast
        /\ proc.tools = <<>>
        /\ proc.requests = <<EscalationRequest(proc.fact.id, "no valid llm plan")>>
        /\ AtRecv

\* the provider failed for one fact and returned an empty plan for the next
C9_FailedThenEmpty ==
    /\ proc.done
    /\ proc.n = 2
    /\ proc.prev = "no valid llm plan"
    /\ proc.llm = "empty"
    /\ Offered = NoRunbook
    /\ config.llm

\* intents: step and row id of the ActionIntent appends of one execute_plan call
InStepOrder(intents, plan, incident_id) ==
    /\ \A a, b \in 1..Len(intents) :
          intents[a].step < intents[b].step => intents[a].id < intents[b].id
    /\ \A a \in 1..Len(intents) :
          \E r \in Rows :
              /\ table[r].id = intents[a].id
              /\ table[r].event_type = "ActionIntent"
              /\ table[r].incident_id = incident_id
              /\ table[r].name = plan[intents[a].step].name

\* C10: execute_plan starts the steps in plan order: the ActionIntent rows of
\* one plan carry the names of the steps they were appended for, and for steps
\* i < j that were both started the ActionIntent of i has the smaller id.
C10_IntentsInStepOrder ==
    /\ InStepOrder(proc.intents, proc.plan, proc.fact.id)
    /\ InStepOrder(ui.intents, ui.selected, ui.incident_id)

\* both steps of a plan were started, and a UI command appended in between
C10_TwoIntentsAroundUiRow ==
    /\ Len(proc.intents) = 2
    /\ \E r \in Rows :
          /\ table[r].event_type \in {"FactRetracted", "FactAsserted", "FactSuggested"}
          /\ proc.intents[1].id < table[r].id
          /\ table[r].id < proc.intents[2].id

\* -------------------------------------------------- properties of execute_plan
\* the append of the given type for this step of the running plan is in the log
StepLogged(entries, step, event_type) ==
    \E a \in 1..Len(entries) :
        /\ entries[a].step = step
        /\ \E r \in Rows : table[r].id = entries[a].id /\ table[r].event_type = event_type

\* C11: execution is strictly sequential, also when a log append returns a
\* storage error: the tool executor is invoked for a step only with that
\* step's ActionIntent in the log, and for step j+1 only with the ActionResult
\* of step j in the log.
C11_StrictlySequential ==
    \A k \in 1..Len(proc.tools) :
        /\ StepLogged(proc.intents, k, "ActionIntent")
        /\ k > 1 => StepLogged(proc.results, k - 1, "ActionResult")

\* execute_plan is running: a plan was handed over and no value came back yet
InExecutePlan == agent.pc \in {"intent", "tool", "result"}

\* C12: execute_plan stops at the first failure: once the tool call of step k
\* failed no ActionIntent is appended and no tool is invoked for a step after
\* k, and the call returns Err carrying step k and its error; it returns Ok
\* exactly if every step's tool call returned Ok, and for an empty plan it
\* returns Ok without appending anything.
C12_StopsAtFirstFailure ==
    /\ ~AllOk =>
          LET k == FirstFailure
          IN  /\ Len(proc.tools) = k
              /\ \A a \in 1..Len(proc.intents) : proc.intents[a].step <= k
              /\ agent.pc \notin {"intent", "tool", "resolved"}
              /\ proc.events[Len(proc.events)].event_type # "Resolved"
    /\ agent.pc = "fail_send" =>
          /\ ~AllOk
          /\ agent.failed_step = proc.plan[FirstFailure]
          /\ agent.reason = proc.outs[FirstFailure]
    /\ agent.pc = "resolved" =>
          /\ AllOk
          /\ Len(proc.outs) = Len(proc.plan)
          /\ proc.plan = <<>> => Trace = << <<"FactAsserted", "", "", "", "">>,
                                           <<"PlanSelected", "", "", "", "">> >>
    /\ (proc.via \in {"runbook", "llm"} /\ proc.llm \in {"", "ok"} /\ AllOk
           /\ Len(proc.outs) = Len(proc.plan) /\ ~InExecutePlan)
          => \/ agent.pc = "resolved"
             \/ proc.done /\ proc.events[Len(proc.events)].event_type = "Resolved"

\* the first of two steps failed and execute_plan has just returned Err
C12_FirstOfTwoFailed ==
    /\ agent.pc = "fail_send"
    /\ proc.outs = <<"boom">>
    /\ Len(proc.plan) = 2
    /\ Len(proc.intents) = 1

\* how many of the loop's events for the current fact satisfy Test
CountEvents(Test(_)) == Len(SelectSeq(proc.events, Test))

IsPlanSelected(e) == e.event_type = "PlanSelected"

IsFailedResult(e) == e.event_type = "ActionResult" /\ e.status = "failed"

IsEscalated(e) == e.event_type = "Escalated"

Distinct(entries) ==
    \A a, b \in 1..Len(entries) : a # b => entries[a].step # entries[b].step

\* C13: nothing is retried, whatever max_replan_attempts is: for each fact at
\* most one plan is selected and executed, the tool executor is invoked at
\* most once per plan step, and a failing step of any effect leaves exactly
\* one failed ActionResult and exactly one Escalated event for the fact.
C13_NothingRetried ==
    /\ CountEvents(IsPlanSelected) <= 1
    /\ Len(proc.tools) <= Len(proc.plan)
    /\ \A k \in 1..Len(proc.tools) : proc.tools[k] = proc.plan[k].name
    /\ Distinct(proc.intents)
    /\ Distinct(proc.results)
    /\ (proc.done /\ ~AllOk) =>
          /\ CountEvents(IsFailedResult) = 1
          /\ CountEvents(IsEscalated) = 1
          /\ Len(proc.requests) = 1

\* an Irreversible step failed under a configuration that allows replanning
C13_IrreversibleStepFailed ==
    /\ proc.done
    /\ ~AllOk
    /\ proc.plan[FirstFailure].effect = "Irreversible"
    /\ config.max_replan_attempts > 1

\* ---------------------------------------------- properties of the projections
FactIds == {"f1", "f2", "inc-1", "inc-2"}

\* the assert and retract events of fact f in incident i, in append order
FactEvents(i, f) ==
    SelectSeq(AppendOrder(i),
              LAMBDA e : \/ e.event_type = "FactAsserted" /\ e.fact.id = f
                         \/ e.event_type = "FactRetracted" /\ e.fact_id = f)

\* C14: get_beliefs lists a fact id exactly if the most recent FactAsserted or
\* FactRetracted event of the incident for that id is a FactAsserted, once and
\* with the content of that event; events of other types and of other
\* incidents do not count.
C14_BeliefsAreReplay ==
    \A i \in Incidents :
        LET got == get_beliefs(table, i)
        IN  /\ \A n \in 1..Len(got) : got[n].fact_id \in FactIds
            /\ \A f \in FactIds :
                  LET evs == FactEvents(i, f)
                      listed == {n \in 1..Len(got) : got[n].fact_id = f}
                  IN  IF evs # <<>> /\ evs[Len(evs)].event_type = "FactAsserted"
                      THEN /\ Cardinality(listed) = 1
                           /\ \A n \in listed :
                                 /\ got[n].summary = evs[Len(evs)].fact.title
                                 /\ got[n].tags = evs[Len(evs)].fact.tags
                                 /\ got[n].severity = severity_to_string(evs[Len(evs)].fact.severity)
                      ELSE listed = {}

\* a fact was asserted, retracted and asserted again with another title, and
\* the other incident's fact of the same id does not show
C14_ReassertedAfterRetract ==
    \E i \in Incidents :
        LET evs == FactEvents(i, "f1")
        IN  /\ Len(evs) = 3
            /\ evs[1].event_type = "FactAsserted"
            /\ evs[2].event_type = "FactRetracted"
            /\ evs[3].event_type = "FactAsserted"
            /\ evs[3].fact.title # evs[1].fact.title
            /\ Len(get_beliefs(table, i)) = 1

\* a retracted fact is absent while a fact of another id is still listed
C14_RetractedAbsent ==
    \E i \in Incidents :
        /\ Len(FactEvents(i, "f1")) = 2
        /\ FactEvents(i, "f1")[2].event_type = "FactRetracted"
        /\ Len(get_beliefs(table, i)) = 1

\* the event ids get_suggested_facts returns for incident i
Pending(i) ==
    LET got == get_suggested_facts(table, i)
    IN  {got[n].suggestion_event_id : n \in 1..Len(got)}

\* get_suggested_facts returns, once each and in id order, exactly the
\* FactSuggested events of the incident that no later FactSuggestionResolved
\* event of the incident references, with the suggested content; a suggestion
\* whose decision has been stored is not returned.
C15_PendingSuggestions ==
    \A i \in Incidents :
        LET got == get_suggested_facts(table, i)
        IN  /\ \A a, b \in 1..Len(got) :
                  a < b => got[a].suggestion_event_id < got[b].suggestion_event_id
            /\ \A r \in Rows :
                  LET referenced ==
                          \E q \in Rows : /\ table[q].incident_id = i
                                          /\ table[q].event_type = "FactSuggestionResolved"
                                          /\ table[q].ref = table[r].id
                                          /\ table[q].id > table[r].id
                  IN  (table[r].incident_id = i /\ table[r].event_type = "FactSuggested"
                          /\ ~referenced)
                      <=> \E n \in 1..Len(got) :
                             /\ got[n].suggestion_event_id = table[r].id
                             /\ got[n].fact_id = table[r].fact.id
                             /\ got[n].summary = table[r].fact.title
            /\ \A n \in 1..Len(got) : \E r \in Rows : table[r].id = got[n].suggestion_event_id

\* every decision stored leaves the decided suggestion unlisted and the rest of
\* the pending set as it was
C15_DecisionRemovesOnlyK ==
    [][ (ui.pc = "decide_resolve" /\ ui'.pc = "idle" /\ ui'.ret = "ok")
        => \A i \in Incidents :
              LET got == get_suggested_facts(table', i)
                  after == {got[m].suggestion_event_id : m \in 1..Len(got)}
              IN  after = IF i = ui.incident_id THEN Pending(i) \ {ui.k} ELSE Pending(i) ]_vars

HasResolved(i) ==
    \E r \in Rows : table[r].incident_id = i /\ table[r].event_type = "Resolved"

\* C16: list_incidents reports status "resolved" for an incident exactly if
\* the log holds a Resolved event of that incident, which is exactly if
\* active_incidents() does not contain it.
C16_ResolvedIffResolvedEvent ==
    LET out == list_incidents(table)
    IN  \A n \in 1..Len(out) :
           /\ out[n].status = "resolved" <=> HasResolved(out[n].id)
           /\ out[n].status = "resolved" <=> out[n].id \notin active_incidents(table)

\* what the summary does report: the status follows the last Resolved or
\* Escalated event of the incident, and every incident of the log is listed once
C16_StatusFollowsLastTerminalEvent ==
    LET out == list_incidents(table)
    IN  /\ {out[n].id : n \in 1..Len(out)} = {table[r].incident_id : r \in Rows}
        /\ \A a, b \in 1..Len(out) : out[a].id = out[b].id => a = b
        /\ \A n \in 1..Len(out) :
              LET terminal == SelectSeq(AppendOrder(out[n].id),
                                        LAMBDA e : e.event_type \in {"Resolved", "Escalated"})
              IN  out[n].status =
                     IF terminal = <<>> THEN "active"
                     ELSE IF terminal[Len(terminal)].event_type = "Resolved" THEN "resolved"
                     ELSE "escalated"

\* an incident with a Resolved event is reported as escalated
C16_EscalatedAfterResolved ==
    \E n \in 1..Len(list_incidents(table)) :
        /\ list_incidents(table)[n].status = "escalated"
        /\ HasResolved(list_incidents(table)[n].id)

\* ------------------------------------------ properties of concurrent plan runs
PlanEventTypes == {"PlanSelected", "ActionIntent", "ActionResult"}

\* the agent loop has stored the PlanSelected event of a plan for incident i
\* and not yet taken the step that appends its Resolved or Escalated event
AgentRunOpen(i) ==
    /\ agent.incident_id = i
    /\ agent.pc \in {"intent", "tool", "result", "resolved", "fail_send", "fail_log"}
    /\ \E n \in 1..Len(proc.events) : proc.events[n].event_type = "PlanSelected"

\* the same for the plan run of reprocess_incident
UiRunOpen(i) ==
    /\ ui.incident_id = i
    /\ ui.pc \in {"re_intent", "re_result", "re_resolved"}

\* this step appends a plan event for incident i
PlanEventAppended(i) ==
    /\ Len(table') = Len(table) + 1
    /\ table'[Len(table')].incident_id = i
    /\ table'[Len(table')].event_type \in PlanEventTypes

\* C17: between the PlanSelected event of a plan run and that run's Resolved
\* or Escalated event, no PlanSelected, ActionIntent or ActionResult of another
\* plan run for the same incident is appended, whichever of the agent loop and
\* reprocess_incident runs the plans.
C17_PlanRunsDoNotInterleave ==
    [][ \A i \in Incidents :
           /\ (PlanEventAppended(i) /\ ui' # ui) => ~AgentRunOpen(i)
           /\ (PlanEventAppended(i) /\ agent' # agent) => ~UiRunOpen(i) ]_vars

\* both plan runs of one incident have stored events and neither has ended
C17_TwoRunsOpen ==
    \E i \in Incidents :
        /\ AgentRunOpen(i) /\ UiRunOpen(i)
        /\ Len(proc.intents) > 0 /\ Len(ui.intents) > 0

\* ------------------------------------------------ properties of the dispatcher
NotifiedTypes == {"PlanSelected", "ActionResult", "Escalated", "Resolved"}

\* the notifications the dispatcher has emitted; those of the escalation
\* consumer carry no event id
Dispatched == SelectSeq(sink.events, LAMBDA n : n.id > 0)

NotifiedOnce(r) ==
    Cardinality({n \in 1..Len(Dispatched) : Dispatched[n].id = table[r].id}) = 1

\* no duplicate, no skip, ascending: the dispatcher's notifications are, in
\* ascending event id, exactly the PlanSelected, ActionResult, Escalated and
\* Resolved events with an id above the last_id the thread started with and
\* up to its current last_id
C18_OncePerEventInOrder ==
    /\ \A a, b \in 1..Len(Dispatched) : a < b => Dispatched[a].id < Dispatched[b].id
    /\ \A n \in 1..Len(Dispatched) :
          \E r \in Rows : /\ table[r].id = Dispatched[n].id
                          /\ table[r].event_type \in NotifiedTypes
                          /\ table[r].incident_id = Dispatched[n].incident_id
                          /\ table[r].id > disp.start_id
                          /\ table[r].id <= disp.last_id
    /\ disp.pc # "start" =>
          \A r \in Rows :
             (table[r].event_type \in NotifiedTypes
                 /\ table[r].id > disp.start_id /\ table[r].id <= disp.last_id)
             => NotifiedOnce(r)
    /\ disp.start_id <= disp.last_id
    /\ disp.last_id <= latest_event_id(table)

\* event k is one the dispatcher has to notify
Due(k) ==
    /\ disp.pc # "start"
    /\ \E r \in Rows : /\ table[r].id = k /\ k > disp.start_id
                       /\ table[r].event_type \in NotifiedTypes

Notified(k) == \E n \in 1..Len(Dispatched) : Dispatched[n].id = k

\* rows are never removed and notifications never withdrawn
C18_DueAndNotifiedAreStable ==
    [][ \A k \in 1..MaxLog + 1 : /\ Due(k) => Due(k)'
                                 /\ Notified(k) => Notified(k)' ]_vars

\* under fairness of the polling thread every such event is notified: as Due
\* and Notified are stable, "Due(k) leads to Notified(k)" is the same as
\* "again and again, event k is notified if it is due"
C18_EventuallyNotified ==
    \A k \in 1..MaxLog + 1 : []<>(Due(k) => Notified(k))

\* C18: across ticks interleaved with appends by other threads, every
\* PlanSelected, ActionResult, Escalated and Resolved event with an id above
\* the dispatcher's initial last_id is notified exactly once, in ascending
\* event id, and under fairness of the polling thread eventually.
C18_NoDuplicateNoSkip ==
    /\ []C18_OncePerEventInOrder
    /\ C18_DueAndNotifiedAreStable
    /\ C18_EventuallyNotified

\* the thread started on a log that already had rows, and notified events
\* that were appended between its ticks in more than one tick
C18_NotifiedAcrossTicks ==
    /\ disp.start_id > 0
    /\ Len(Dispatched) >= 2
    /\ disp.pc = "tick"
    /\ disp.last_id = latest_event_id(table)
    /\ \E r \in Rows : table[r].id > disp.start_id /\ table[r].event_type \notin NotifiedTypes

NameOf(event_type) ==
    CASE event_type = "PlanSelected" -> "plan-selected"
      [] event_type = "ActionResult" -> "action-completed"
      [] event_type = "Escalated" -> "escalation-required"
      [] event_type = "Resolved" -> "incident-resolved"

\* what a tick has to announce: the rows above last_id of the four notified
\* types, by their names, in the order of the log
Announced(last_id) ==
    LET new == SelectSeq(table, LAMBDA e : e.id > last_id /\ e.event_type \in NotifiedTypes)
    IN  [n \in 1..Len(new) |-> [name |-> NameOf(new[n].event_type), id |-> new[n].id,
                                incident_id |-> new[n].incident_id]]

\* the reads of this step succeeded
ReadsOk == faults' = faults

\* C19: every tick of emit_updates emits one beliefs-updated notification with
\* the current number of active incidents, then for each new event its
\* notification (plan-selected, action-completed, escalation-required,
\* incident-resolved) and nothing for events of any other type.
C19_TickNotifications ==
    [][ /\ (disp.pc = "tick" /\ disp'.pc = "scan")
           => /\ sink'.updates = 1
              /\ sink'.events = sink.events
              /\ ReadsOk => sink'.beliefs = Cardinality(active_incidents(table))
        /\ (disp.pc = "scan" /\ disp'.pc = "tick")
           => /\ sink'.updates = 1 /\ sink'.beliefs = sink.beliefs
              /\ ReadsOk => sink'.events = sink.events \o Announced(disp.last_id)
              /\ ~ReadsOk => sink'.events = sink.events ]_vars

\* a finished tick announced events while rows of silent types (a fact and an
\* intent) were new as well, and reported the active incidents
C19_TickWithSilentEvents ==
    /\ disp.pc = "tick" /\ sink.updates = 1
    /\ sink.beliefs = Cardinality(active_incidents(table)) /\ sink.beliefs > 0
    /\ disp.last_id = latest_event_id(table)
    /\ Len(Dispatched) = 1
    /\ \E r, q \in Rows : /\ table[r].id > disp.start_id /\ table[q].id > disp.start_id
                          /\ table[r].event_type = "FactSuggestionResolved"
                          /\ table[q].event_type = "EscalationResponded"

\* ------------------------------------------- properties of the decision consumer
\* this step appends exactly the row ev, with a fresh id
Appends(ev) ==
    /\ Len(table') = Len(table) + 1
    /\ SubSeq(table', 1, Len(table)) = table
    /\ [table'[Len(table')] EXCEPT !.id = 0] = ev

Known(i) == \E r \in Rows : table[r].incident_id = i

\* the consumer's two steps for the pair it took from the decision channel:
\* one EscalationResponded, then a Resolved exactly for Approve, which closes
\* the incident
ConsumerAppends ==
    /\ (consumer.pc = "respond" /\ consumer' # consumer)
       => /\ Appends(EscalationRespondedEvent(consumer.incident_id, consumer.response))
          /\ consumer'.pc = "resolve" <=> consumer.response = "Approve"
          /\ consumer'.pc # "resolve" => consumer' = IdleConsumer
    /\ (consumer.pc = "resolve" /\ consumer' # consumer)
       => /\ consumer.response = "Approve"
          /\ Appends(ResolvedEvent(consumer.incident_id))
          /\ consumer.incident_id \notin active_incidents(table')
          /\ consumer' = IdleConsumer

\* C20: for each (incident_id, response) taken from the decision channel the
\* consumer appends one EscalationResponded event for the incident, followed by
\* a Resolved event exactly if the response is Approve; after an Approve the
\* incident is not active, and processing a Reject or TakeOver leaves the set
\* of active incidents unchanged.
C20_DecisionConsumer ==
    [][ /\ ConsumerAppends
        /\ (consumer.pc = "respond" /\ consumer' # consumer /\ consumer.response # "Approve")
           => active_incidents(table') = active_incidents(table) ]_vars

\* what holds instead: a Reject or TakeOver leaves the active set unchanged
\* for an incident the log knows, and makes an incident without events active
C20_UnknownIncidentBecomesActive ==
    [][ /\ ConsumerAppends
        /\ (consumer.pc = "respond" /\ consumer' # consumer /\ consumer.response # "Approve")
           => active_incidents(table') =
                 IF Known(consumer.incident_id) THEN active_incidents(table)
                 ELSE active_incidents(table) \cup {consumer.incident_id} ]_vars

\* a rejected response for an incident without events has been processed
C20_RejectedUnknownIncident ==
    /\ consumer = IdleConsumer
    /\ \E r \in Rows :
          /\ table[r].event_type = "EscalationResponded"
          /\ table[r].decision \in {"Reject", "TakeOver"}
          /\ table[r].incident_id \in active_incidents(table)
          /\ \A q \in Rows : table[q].incident_id = table[r].incident_id => q = r

\* an approval was processed while another thread appended between the
\* consumer's two events
C20_ApprovedBesideOtherWriters ==
    \E r, q, w \in Rows :
        /\ r < w /\ w < q
        /\ table[r].event_type = "EscalationResponded" /\ table[r].decision = "Approve"
        /\ table[q].event_type = "Resolved" /\ table[q].incident_id = table[r].incident_id
        /\ consumer = IdleConsumer

\* ------------------------------------------- properties of the webhook server
ParsedOf(request) == parse_with_adapter(request.payload, request.route)

\* the facts of the requests answered 202, in the order of the answers
RECURSIVE AcceptedFacts(_)
AcceptedFacts(requests) ==
    IF requests = <<>> THEN <<>>
    ELSE LET init == SubSeq(requests, 1, Len(requests) - 1)
             last == requests[Len(requests)]
         IN  IF last.status = 202 THEN Append(AcceptedFacts(init), ParsedOf(last).value)
             ELSE AcceptedFacts(init)

AssertedFacts ==
    LET asserted == SelectSeq(table, LAMBDA e : e.event_type = "FactAsserted")
    IN  [k \in 1..Len(asserted) |-> asserted[k].fact]

\* one request: its answer follows from the parse and the state of the channel,
\* and it pushes its fact, once, exactly when the answer is 202
C21_Request ==
    Len(http') = Len(http) + 1 =>
        LET request == http'[Len(http')]
            fact == ParsedOf(request)
        IN  /\ request.status = 202 <=> (fact.ok /\ ReceiverAlive)
            /\ request.status = 400 <=> ~fact.ok
            /\ request.status = 503 <=> (fact.ok /\ ~ReceiverAlive)
            /\ request.status = 202 =>
                  /\ fact_ch' = Append(fact_ch, fact.value)
                  /\ sent' = Append(sent, fact.value)
            /\ request.status # 202 => UNCHANGED <<fact_ch, sent>>

\* the channel got the facts of the accepted requests and nothing else, and
\* the agent loop asserted facts of accepted requests only, in their order
C21_OnlyAcceptedFacts ==
    /\ sent = AcceptedFacts(http)
    /\ Len(AssertedFacts) <= Len(sent)
    /\ AssertedFacts = SubSeq(sent, 1, Len(AssertedFacts))

\* C21: a webhook request pushes exactly one Fact onto the fact channel and
\* answers 202 if and only if the adapter parse and validate_alert_v1 succeed
\* and the channel is open; on adapter or validation failure it answers 400 and
\* pushes nothing, so no FactAsserted is appended for a rejected payload; a
\* valid payload on a closed channel is answered 503.
C21_WebhookAnswers ==
    /\ [][C21_Request]_vars
    /\ []C21_OnlyAcceptedFacts

\* a rejected payload and an accepted one were answered while the loop ran,
\* the accepted fact was asserted, and a valid payload came after the receiver
\* was gone
C21_AllThreeAnswers ==
    /\ \E k \in 1..Len(http) : http[k].status = 400
    /\ \E k \in 1..Len(http) : http[k].status = 202
    /\ \E k \in 1..Len(http) : http[k].status = 503 /\ ParsedOf(http[k]).ok
    /\ Len(AssertedFacts) = 1

\* ------------------------------------------- properties of reprocess_incident
\* type and step of each event of a sequence
Shape(events) == [k \in 1..Len(events) |-> <<events[k].event_type, events[k].name>>]

\* the rows the one UI command of the behaviour appended: those of the table
\* that the agent loop did not append
ReprocessEvents ==
    SelectSeq(OrderById(table),
              LAMBDA e : \A k \in 1..Len(proc.events) : proc.events[k].id # e.id)

\* the agent loop is through with its fact, and reprocess_incident has
\* returned after selecting that fact
LiveAndReprocessed ==
    /\ proc.done
    /\ agent.pc = "recv"
    /\ ui.pc = "idle"
    /\ ui.op = "reprocess_incident"
    /\ ui.ret \in {"ok", "no matching deterministic runbook"}

\* C22: reprocess_incident appends for the fact it selects the same sequence of
\* event types, with the same steps in the same order, as the agent loop
\* appends when it processes that fact live with an executor that always
\* succeeds.
C22_ReprocessEmitsLiveSequence ==
    LiveAndReprocessed => Shape(ReprocessEvents) = Shape(proc.events)

\* ------------------------------------- properties of the agent loop's shutdown
\* the loop has returned: every sender was dropped before, nothing is left in
\* the channel, and every fact sent was received and asserted, in order
C23_StoppedAfterAllFacts ==
    agent.pc = "stopped" =>
        /\ ~senders_open
        /\ fact_ch = <<>>
        /\ proc.n = Len(sent)
        /\ proc.n > 0 => proc.done
        /\ AssertedFacts = sent

\* the loop returns only from recv(), and never while a sender is open
C23_StopsOnlyOnDisconnect ==
    [][(agent.pc # "stopped" /\ agent'.pc = "stopped")
          => (agent.pc = "recv" /\ ~senders_open /\ fact_ch = <<>>)]_vars

\* C23: every tool and LLM call returning, the agent loop eventually
\* terminates once all senders of the fact channel are dropped, only after
\* every fact sent was received and processed with a FactAsserted for each,
\* and never while a sender is still open.
C23_TerminatesWhenSendersDropped ==
    /\ (~senders_open) ~> (agent.pc = "stopped")
    /\ []C23_StoppedAfterAllFacts
    /\ C23_StopsOnlyOnDisconnect

\* the senders were dropped with facts still queued, and the loop returned
\* after it had processed both
C23_StoppedAfterQueuedFacts ==
    /\ agent.pc = "stopped"
    /\ Len(sent) = 2
    /\ Len(AssertedFacts) = 2
    /\ \E k \in 1..Len(table) : table[k].event_type = "Escalated"

\* --------------------------------------- properties of the dispatcher's cursor
MaxOf(S) == CHOOSE m \in S : \A n \in S : n <= m

\* this step is the second half of a tick: the events_after call and the loop
ScanStep == disp.pc = "scan" /\ disp'.pc = "tick"

\* the ids of the rows events_after returns for the cursor
IdsAfterCursor == {table[r].id : r \in {q \in 1..Len(table) : table[q].id > disp.last_id}}

C24_Step ==
    /\ disp'.last_id >= disp.last_id
    /\ (disp.pc # "start" /\ disp'.last_id # disp.last_id) =>
          /\ ScanStep
          /\ \E r \in 1..Len(table) : /\ table[r].id > disp.last_id
                                      /\ table[r].id = disp'.last_id
    /\ (ScanStep /\ faults' = faults) =>
          disp'.last_id = MaxOf({disp.last_id} \cup IdsAfterCursor)
    /\ (ScanStep /\ (faults' # faults \/ IdsAfterCursor = {})) =>
          disp'.last_id = disp.last_id

\* C24: the dispatcher's last_seen never decreases and changes only when an
\* event with a strictly greater id is observed: after every tick it is the
\* maximum of its previous value and the ids of the events events_after
\* returned in that tick, and it is unchanged when events_after fails or
\* returns nothing.
C24_LastSeenMonotone == [][C24_Step]_vars

\* the thread started on an empty log, one storage error has happened, and
\* ticks have moved the cursor over all rows of the full log
C24_CursorCaughtUp ==
    /\ disp.pc = "tick"
    /\ faults = 0
    /\ disp.start_id = 0
    /\ disp.last_id = latest_event_id(table)
    /\ Len(table) = MaxTailLog
    /\ Len(sink.events) >= 2

\* ------------------------------------------- properties of the incident phase
PhaseOf(event_type) ==
    CASE event_type \in {"FactAsserted", "FactRetracted", "FactSuggested",
                         "FactSuggestionResolved"} -> "matching"
      [] event_type = "PlanSelected" -> "planning"
      [] event_type \in {"ActionIntent", "ActionResult"} -> "executing"
      [] event_type = "Escalated" -> "escalating"
      [] event_type = "EscalationResponded" -> "human-response"
      [] event_type = "Resolved" -> "resolved"

\* C25: for every non-empty incident log the phase of the incident summary is
\* the phase mapped from the type of the incident's most recent event:
\* FactAsserted, FactRetracted, FactSuggested, FactSuggestionResolved give
\* matching, PlanSelected planning, ActionIntent and ActionResult executing,
\* Escalated escalating, EscalationResponded human-response, Resolved resolved.
C25_PhaseOfLatestEvent ==
    \A incident_id \in Incidents :
        LET events == events_for_incident(table, incident_id)
        IN  events # <<>> =>
               summarize_incident(table, incident_id).current_phase
                   = PhaseOf(events[Len(events)].event_type)

\* an incident that was resolved and then got a human response: the status
\* stays resolved while the phase follows the latest event
C25_PhaseAfterResolved ==
    LET events == events_for_incident(table, "inc-1")
    IN  /\ Len(events) = 3
        /\ events[2].event_type = "Resolved"
        /\ events[3].event_type = "EscalationResponded"
        /\ summarize_incident(table, "inc-1").status = "resolved"
        /\ summarize_incident(table, "inc-1").current_phase = "human-response"

\* ------------------------------------------ properties of the plan projections
\* the incident's ActionIntent, ActionResult and Escalated events that name an action
NamedEvents(incident_id) ==
    SelectSeq(events_for_incident(table, incident_id),
              LAMBDA e : /\ e.event_type \in {"ActionIntent", "ActionResult", "Escalated"}
                         /\ e.has_details /\ e.name # "")

FirstWith(named, name) ==
    CHOOSE n \in 1..Len(named) :
        named[n].name = name /\ \A m \in 1..(n - 1) : named[m].name # name

LastWith(named, name) ==
    CHOOSE n \in 1..Len(named) :
        named[n].name = name /\ \A m \in (n + 1)..Len(named) : named[m].name # name

\* C26: get_current_plan lists one step per distinct action name in order of
\* first appearance among the incident's ActionIntent, ActionResult and
\* Escalated events; status and effect of a step are those of the most recent
\* such event with its name; current_step is the index of the first step whose
\* status is "running", otherwise the last index, and 0 when there is no step.
C26_CurrentPlan ==
    \A incident_id \in Incidents :
        LET named == NamedEvents(incident_id)
            plan == get_current_plan(table, incident_id)
            steps == plan.steps
            K == 1..Len(steps)
            running == {k \in K : steps[k].status = "running"}
        IN  /\ \A j, k \in K : steps[j].name = steps[k].name => j = k
            /\ {steps[k].name : k \in K} = {named[n].name : n \in 1..Len(named)}
            /\ \A j, k \in K :
                  j < k => FirstWith(named, steps[j].name) < FirstWith(named, steps[k].name)
            /\ \A k \in K :
                  LET latest == named[LastWith(named, steps[k].name)]
                  IN  /\ steps[k].status = latest.status
                      /\ steps[k].effect = latest.effect
            /\ running # {} =>
                  /\ plan.current_step + 1 \in running
                  /\ \A k \in running : plan.current_step + 1 <= k
            /\ (running = {} /\ K # {}) => plan.current_step = Len(steps) - 1
            /\ K = {} => plan.current_step = 0

\* the incident's plan ran to its end and runs again: the first step is
\* running once more, the second still shows the result of the first run
C26_SecondRunUnderWay ==
    LET plan == get_current_plan(table, "inc-1")
    IN  /\ Len(plan.steps) = 2
        /\ plan.steps[1].status = "running"
        /\ plan.steps[2].status \in {"done", "failed"}
        /\ plan.current_step = 0
        /\ Len(NamedEvents("inc-1")) > 4

\* the rows of the table that are ActionIntent or ActionResult events of the incident
ActionRows(incident_id) ==
    {r \in 1..Len(table) : /\ table[r].incident_id = incident_id
                           /\ table[r].event_type \in {"ActionIntent", "ActionResult"}}

\* C27: get_tool_calls returns exactly one row per ActionIntent event (phase
\* "intent") and one per ActionResult event (phase "result") of the incident,
\* in ascending event id, and no row for any other event type; the number of
\* rows is the number of ActionIntent plus ActionResult events.
C27_ToolCalls ==
    \A incident_id \in Incidents :
        LET got == get_tool_calls(table, incident_id)
            N == 1..Len(got)
        IN  /\ Len(got) = Cardinality(ActionRows(incident_id))
            /\ \A r \in ActionRows(incident_id) :
                  \E n \in N :
                     /\ got[n].event_id = table[r].id
                     /\ got[n].phase = IF table[r].event_type = "ActionIntent"
                                       THEN "intent" ELSE "result"
                     /\ got[n].tool_name = table[r].name
                     /\ \A m \in N : got[m].event_id = table[r].id => m = n
            /\ \A n \in N : \E r \in ActionRows(incident_id) : table[r].id = got[n].event_id
            /\ \A m, n \in N : m < n => got[m].event_id < got[n].event_id


\* the ActionIntent and ActionResult rows of the incident that carry details
DetailedActionRows(incident_id) == {r \in ActionRows(incident_id) : table[r].has_details}

\* get_tool_calls returns exactly one row per ActionIntent event and one per
\* ActionResult event of the incident whose details are present, with its
\* phase, in ascending event id, and no other row; an ActionIntent or
\* ActionResult event stored without details gives no row.
C27_ToolCallsOfDetailedEvents ==
    \A incident_id \in Incidents :
        LET got == get_tool_calls(table, incident_id)
            N == 1..Len(got)
        IN  /\ Len(got) = Cardinality(DetailedActionRows(incident_id))
            /\ \A r \in DetailedActionRows(incident_id) :
                  \E n \in N :
                     /\ got[n].event_id = table[r].id
                     /\ got[n].phase = IF table[r].event_type = "ActionIntent"
                                       THEN "intent" ELSE "result"
                     /\ got[n].tool_name = table[r].name
                     /\ \A m \in N : got[m].event_id = table[r].id => m = n
            /\ \A n \in N :
                  \E r \in DetailedActionRows(incident_id) : table[r].id = got[n].event_id
            /\ \A m, n \in N : m < n => got[m].event_id < got[n].event_id

\* a log with the intent and the failed result of a step, the Escalated event
\* that names it, and an ActionIntent stored without details
C27_CallsBesideBareIntent ==
    LET got == get_tool_calls(table, "inc-1")
    IN  /\ Len(got) = 2
        /\ got[1].phase = "intent" /\ got[2].phase = "result" /\ got[2].status = "failed"
        /\ Cardinality(ActionRows("inc-1")) = 3
        /\ \E r \in 1..Len(table) : table[r].event_type = "Escalated"

\* ------------------------------------------ properties of the recent-facts window
Min(a, b) == IF a <= b THEN a ELSE b

\* the facts the loop has received so far, in arrival order
Received == SubSeq(sent, 1, proc.n)

PlanFor(fact, cfg, llm, names, cands) ==
    LET offered == select_runbook(detect_pattern(fact), cfg.runbooks)
    IN  IF offered # NoRunbook THEN offered.steps
        ELSE IF cfg.llm /\ llm = "ok" THEN propose_and_validate(names, cands, known_actions(cfg))
        ELSE <<>>

HasPlan(fact, cfg, llm) ==
    \/ select_runbook(detect_pattern(fact), cfg.runbooks) # NoRunbook
    \/ cfg.llm /\ llm = "ok"

TraceFor(fact, cfg, llm, names, cands, outs) ==
    LET plan == PlanFor(fact, cfg, llm, names, cands)
        failed == {k \in 1..Len(outs) : outs[k] # "ok"}
    IN  IF ~HasPlan(fact, cfg, llm)
        THEN << <<"FactAsserted", "", "", "", "">>,
                <<"Escalated", "", "", "", IF cfg.llm THEN "no valid llm plan"
                                           ELSE "no matching runbook">> >>
        ELSE IF failed = {}
        THEN Started(plan, Len(plan), "done", "") \o << <<"Resolved", "", "", "", "">> >>
        ELSE LET k == CHOOSE k \in failed : \A j \in failed : k <= j
             IN  Started(plan, k, "failed", outs[k])
                    \o << <<"Escalated", plan[k].name, "", "", outs[k]>> >>

\* C29: the window of recent facts does not affect the execution of the
\* current fact: the plan selected for it, the tool calls made and the events
\* appended are determined by the fact, the configuration and the answers of
\* the tool executor and the LLM, whatever facts were received before it.
C29_WindowDoesNotAffectPlan ==
    /\ proc.via # "" =>
          proc.plan = PlanFor(proc.fact, config, proc.llm, proc.names, proc.cands)
    /\ proc.tools = StepNames(proc.plan, Len(proc.outs))
    /\ proc.done =>
          Trace = TraceFor(proc.fact, config, proc.llm, proc.names, proc.cands, proc.outs)

\* the second fact of a run was planned by the LLM, which was handed a window
\* that holds a different fact before it, and its plan was executed
C29_PlannedWithOlderFactInWindow ==
    /\ proc.done
    /\ proc.n = 2
    /\ Len(recent_facts) = 2
    /\ recent_facts[1] # recent_facts[2]
    /\ detect_pattern(recent_facts[1]) # detect_pattern(recent_facts[2])
    /\ proc.via = "llm"
    /\ Len(proc.tools) >= 1

\* ------------------------------------------ properties of propose_and_validate
AllActions == known_actions(config)

IsActionName(name) == \E k \in 1..Len(AllActions) : AllActions[k].name = name

\* the all_actions entry a name stands for
EntryOf(name) ==
    AllActions[CHOOSE k \in 1..Len(AllActions) :
                  /\ AllActions[k].name = name
                  /\ \A j \in 1..(k - 1) : AllActions[j].name # name]

\* C30: when at least one name the LLM returned is in all_actions,
\* propose_and_validate returns the all_actions entries of the returned names
\* that are in all_actions, in the order the LLM returned them; when none is,
\* it returns every all_actions entry whose name is in candidate_actions, in
\* all_actions order (empty if there is none).
C30_ProposeAndValidate ==
    proc.via = "llm" =>
        LET valid == SelectSeq(proc.names, IsActionName)
        IN  IF valid # <<>>
            THEN proc.plan = [k \in 1..Len(valid) |-> EntryOf(valid[k])]
            ELSE /\ \A k \in 1..Len(proc.plan) :
                       /\ InSeq(proc.plan[k], AllActions)
                       /\ InSeq(proc.plan[k].name, proc.cands)
                 /\ \A k \in 1..Len(AllActions) :
                       InSeq(AllActions[k].name, proc.cands) => InSeq(AllActions[k], proc.plan)
                 /\ \A j, k \in 1..Len(proc.plan) :
                       j < k => \E a, b \in 1..Len(AllActions) :
                                   /\ a < b
                                   /\ AllActions[a] = proc.plan[j]
                                   /\ AllActions[b] = proc.plan[k]

\* the LLM returned two known names against the order of all_actions, and the
\* plan keeps the LLM's order
C30_LlmOrderKept ==
    /\ proc.via = "llm"
    /\ proc.names = <<"rollback-deployment", "inspect-pod-logs">>
    /\ Len(proc.plan) = 2
    /\ proc.plan[1].name = "rollback-deployment"
    /\ proc.cands = <<"inspect-memory-metrics", "delete-cluster">>
    /\ AllActions[1].name = "inspect-pod-logs"

\* ---------------------------------------------- properties of the planning rules
\* the lowercased text holds the key
Holds(text, key) == contains(to_lowercase(text), key)

HoldsCrashKey(fact) ==
    \/ Holds(fact.title, <<"crashloop">>)
    \/ \E i \in 1..Len(fact.tags) : Holds(fact.tags[i], <<"crashloop">>)

HoldsOomKey(fact) ==
    \/ Holds(fact.title, <<"oom">>)
    \/ Holds(fact.title, <<"out of memory">>)
    \/ \E i \in 1..Len(fact.tags) : Holds(fact.tags[i], <<"oom">>)

\* C31: detect_pattern is first-match-wins: CrashLoop whenever the lowercased
\* title or a lowercased tag contains "crashloop", also when the alert
\* satisfies the OomKill condition; OomKill iff not CrashLoop and the title
\* contains "oom" or "out of memory" or a tag contains "oom"; Generic otherwise.
C31_FirstMatchWins ==
    proc.pattern # "" =>
        /\ proc.pattern \in {"CrashLoop", "OomKill", "Generic"}
        /\ proc.pattern = "CrashLoop" <=> HoldsCrashKey(proc.fact)
        /\ proc.pattern = "OomKill" <=> (~HoldsCrashKey(proc.fact) /\ HoldsOomKey(proc.fact))
        /\ proc.pattern = "Generic" <=> (~HoldsCrashKey(proc.fact) /\ ~HoldsOomKey(proc.fact))

\* an alert with an OOM title and a crash-loop tag in capitals is a CrashLoop
C31_BothKeys ==
    /\ proc.pattern = "CrashLoop"
    /\ proc.fact.title = <<"Pod ", "OOM">>
    /\ proc.fact.tags = << <<"k8s">>, <<"CrashLoop">> >>
    /\ HoldsOomKey(proc.fact)

\* the key select_runbook looks for in the runbook names
PreferredKey(pattern) == IF pattern = "CrashLoop" THEN <<"crashloop">> ELSE <<"oom", "kill">>

\* positions of the configured runbooks whose lowercased name holds the key
Matching(pattern) ==
    {i \in 1..Len(config.runbooks) : Holds(config.runbooks[i].name, PreferredKey(pattern))}

\* C32: select_runbook returns none for the Generic pattern and when no
\* runbook name matches; otherwise it returns the first runbook in declaration
\* order whose lowercased name contains "crashloop" (CrashLoop) or "oomkill"
\* (OomKill): of several matching runbooks the first declared one wins, and a
\* runbook whose name does not hold the key of the pattern is never returned.
C32_FirstDeclaredRunbook ==
    proc.pattern # "" =>
        IF proc.pattern = "Generic" \/ Matching(proc.pattern) = {}
        THEN proc.runbook = NoRunbook
        ELSE /\ Holds(proc.runbook.name, PreferredKey(proc.pattern))
             /\ \E i \in Matching(proc.pattern) :
                   /\ proc.runbook = config.runbooks[i]
                   /\ \A j \in 1..(i - 1) : j \notin Matching(proc.pattern)

\* two runbooks match an OOM alert, declared after each other: the first is returned
C32_TwoMatch ==
    /\ proc.pattern = "OomKill"
    /\ Matching("OomKill") = {1, 2}
    /\ config.runbooks[1] # config.runbooks[2]
    /\ proc.runbook = config.runbooks[1]
    /\ Holds(config.runbooks[1].name, <<"crashloop">>)

\* ------------------------------------------------------ properties of Effect
\* position of an effect in Pure < Observe < Mutate < Irreversible
Severity(effect) == CHOOSE k \in 1..Len(Effects) : Effects[k] = effect

\* C33: for every Effect, cost_weight is strictly increasing along
\* Pure < Observe < Mutate < Irreversible, and backtrackable is false iff the
\* effect is Irreversible, which is exactly when recovery is ManualReview.
C33_EffectOrder ==
    \A i, j \in 1..Len(proc.weighed) :
        LET a == proc.weighed[i]
            b == proc.weighed[j]
        IN  /\ Severity(a.effect) < Severity(b.effect) <=> a.cost_weight < b.cost_weight
            /\ ~a.backtrackable <=> a.effect = "Irreversible"
            /\ a.effect = "Irreversible" <=> a.recovery = "ManualReview"

\* all four effects were classified, in the order of the enum
C33_AllFour ==
    /\ Len(proc.weighed) = 4
    /\ \A k \in 1..4 : proc.weighed[k].effect = Effects[k]
    /\ ~proc.weighed[4].backtrackable
    /\ proc.weighed[3].backtrackable

\* --------------------------------------- properties of the end of a fact
IsTerminal(e) == e.event_type \in {"Resolved", "Escalated"}

\* the facts the loop has finished with
Finished == IF proc.done THEN proc.n ELSE IF proc.n = 0 THEN 0 ELSE proc.n - 1

EscalatedRows == SelectSeq(table, LAMBDA e : e.event_type = "Escalated")

\* the request an Escalated event stands for
RequestOf(e) == EscalationRequest(e.incident_id, e.reason)

\* between the send of a request and the append of its Escalated event
BetweenSendAndLog == agent.pc \in {"esc_log", "fail_log"}

\* C34: the processing of every fact ends with exactly one terminal event,
\* Resolved or Escalated, never both and never neither; an EscalationRequest
\* is sent for the fact iff that event is Escalated, and it carries the
\* incident id and the reason of the event.
C34_OneTerminalEvent ==
    LET terminals == {k \in 1..Len(proc.events) : IsTerminal(proc.events[k])}
        last == proc.events[Len(proc.events)]
    IN  /\ proc.done =>
              /\ terminals = {Len(proc.events)}
              /\ LoggedLast
              /\ last.event_type = "Escalated" => proc.requests = <<RequestOf(last)>>
              /\ last.event_type = "Resolved" => proc.requests = <<>>
              /\ last.incident_id = incident_id_from_fact(proc.fact)
        /\ ~proc.done => terminals = {}
        /\ Len(SelectSeq(table, IsTerminal)) = Finished
        /\ Len(escalation_ch) = Len(EscalatedRows) + (IF BetweenSendAndLog THEN 1 ELSE 0)
        /\ \A k \in 1..Len(EscalatedRows) : escalation_ch[k] = RequestOf(EscalatedRows[k])

\* one fact was resolved and the next one escalated after a failed tool call
C34_ResolvedThenEscalated ==
    /\ proc.done
    /\ proc.n = 2
    /\ Len(escalation_ch) = 1
    /\ escalation_ch[1].reason = "boom"
    /\ Len(SelectSeq(table, LAMBDA e : e.event_type = "Resolved")) = 1
    /\ Len(EscalatedRows) = 1

\* ------------------------------- properties of the escalation channel
\* the escalation consumer takes a request from the channel in this step
ConsumerReceives ==
    /\ escalation_ch # <<>>
    /\ escalation_ch' = Tail(escalation_ch)
    /\ Len(sink'.events) = Len(sink.events) + 1

\* C35: whenever the escalation consumer receives an EscalationRequest for an
\* incident, the matching Escalated event is already in the log: the agent
\* loop appends the event before the request can be observed on the channel.
C35_EscalatedBeforeRequestSeen ==
    [][ConsumerReceives =>
          \E r \in Rows : /\ table[r].event_type = "Escalated"
                          /\ RequestOf(table[r]) = Head(escalation_ch)]_vars

\* ------------------------------------ properties of the order of the facts
\* the rows the loop appended for the facts before the current one
EarlierRows == 1..(Len(table) - Len(proc.events))

\* C36: the agent loop processes the facts one at a time in the FIFO order of
\* the channel: every event it appends while processing one fact has a smaller
\* id than every event it appends for a fact received later, and its
\* FactAsserted events are in the log in the order the facts were sent.
C36_FactsInFifoOrder ==
    /\ proc.n <= Len(sent)
    /\ fact_ch = SubSeq(sent, proc.n + 1, Len(sent))
    /\ proc.n > 0 => proc.fact = sent[proc.n]
    /\ LoggedLast
    /\ \A r \in EarlierRows : \A k \in 1..Len(proc.events) : table[r].id < proc.events[k].id
    /\ Len(SelectSeq(table, IsTerminal)) = Finished
    /\ \A r \in EarlierRows : IsTerminal(table[r]) =>
          r = Len(table) - Len(proc.events) \/ table[r + 1].event_type = "FactAsserted"
    /\ \A r \in Rows : table[r].event_type = "FactAsserted" => r = 1 \/ IsTerminal(table[r - 1])
    /\ IsPrefix(AssertedFacts, sent)
    /\ Len(AssertedFacts) = IF agent.pc = "assert" THEN proc.n - 1 ELSE proc.n

\* two different facts were sent and both have been processed, the first one first
C36_TwoFactsDone ==
    /\ proc.done
    /\ proc.n = 2
    /\ sent[1] # sent[2]
    /\ AssertedFacts = sent
    /\ EarlierRows # {}
    /\ table[1].fact = sent[1]

\* ------------------------------------------ properties of active_incidents
\* the incidents the log has events of
Logged(t) == {t[k].incident_id : k \in 1..Len(t)}

\* C37: resolution is permanent: an incident that has left active_incidents()
\* is never returned by it again, whatever is appended afterwards, a new
\* FactAsserted or an Escalated event of the same incident included.
C37_ResolutionIsPermanent ==
    [][\A i \in Logged(table) :
          i \notin active_incidents(table) => i \notin active_incidents(table')]_vars

\* a resolved incident got a FactAsserted or Escalated event afterwards and is
\* still not active
C37_EventAfterResolved ==
    \E r, q \in Rows :
        /\ r < q
        /\ table[r].event_type = "Resolved"
        /\ table[q].event_type \in {"FactAsserted", "Escalated"}
        /\ table[q].incident_id = table[r].incident_id
        /\ table[r].incident_id \notin active_incidents(table)
        /\ table[r].incident_id \in Logged(table)

\* ------------------------------------- properties of decide_fact_suggestion
\* the FactSuggested rows of incident i with id k
SuggestionRows(i, k) ==
    {r \in Rows : /\ table[r].incident_id = i
                  /\ table[r].id = k
                  /\ table[r].event_type = "FactSuggested"}

\* the fact decide_fact_suggestion builds from a FactSuggested event
BuiltFrom(e) == [e.fact EXCEPT !.severity = parse_severity(e.fact.severity)]

Approves(decision) == Lower(decision) = "approve"

\* the call goes past its lookup only with a FactSuggested event of the
\* incident with the id given, and has appended nothing at that point
C38_LookupPassed ==
    (ui.pc = "idle" /\ ui'.pc \in {"decide_assert", "decide_resolve"}) =>
        /\ SuggestionRows(ui'.incident_id, ui'.k) # {}
        /\ table' = table
        /\ ui'.pc = "decide_assert" <=> Approves(ui'.decision)

\* a call that does not go past its lookup returns an error and appends nothing
C38_LookupFailed ==
    (ui.pc = "idle" /\ ui'.pc = "idle" /\ ui'.n = ui.n + 1
        /\ ui'.op = "decide_fact_suggestion") =>
        /\ ui'.ret # "ok"
        /\ table' = table

\* the one FactAsserted of an approval, built from the suggestion
C38_Asserted ==
    (ui.pc = "decide_assert" /\ ui'.pc = "decide_resolve") =>
        \E r \in SuggestionRows(ui.incident_id, ui.k) :
            table' = Append(table, Stored(FactAssertedEvent(ui.incident_id, BuiltFrom(table[r]))))

\* the one FactSuggestionResolved of a successful call, after the FactAsserted
\* of an approval
C38_Resolved ==
    (ui.pc = "decide_resolve" /\ ui'.pc = "idle") =>
        IF ui'.ret = "ok"
        THEN /\ table' = Append(table, Stored(FactSuggestionResolvedEvent(
                                                 ui.incident_id, ui.k, ui.decision)))
             /\ table'[Len(table')].ref = ui.k
             /\ Approves(ui.decision) =>
                   \E r \in Rows, q \in SuggestionRows(ui.incident_id, ui.k) :
                       /\ q < r
                       /\ table[r].event_type = "FactAsserted"
                       /\ table[r].incident_id = ui.incident_id
                       /\ table[r].fact = BuiltFrom(table[q])
        ELSE table' = table

\* C38: decide_fact_suggestion(incident_id, k, decision) returns an error and
\* appends nothing when the incident has no FactSuggested event with id k (k
\* unknown, of another event type, or of another incident); when it succeeds
\* it appends exactly one FactSuggestionResolved event that references k,
\* preceded by one FactAsserted event built from the suggestion iff the
\* decision is "approve" in any case of the letters.
C38_DecideFactSuggestion ==
    [][C38_LookupPassed /\ C38_LookupFailed /\ C38_Asserted /\ C38_Resolved]_vars

\* a suggestion was approved with "Approve": its fact, the severity parsed,
\* was asserted and the decision was stored after it
C38_Approved ==
    /\ ui.pc = "idle" /\ ui.op = "decide_fact_suggestion" /\ ui.ret = "ok"
    /\ LET r == Len(table)
       IN  /\ table[r].event_type = "FactSuggestionResolved"
           /\ table[r].decision = "Approve"
           /\ table[r - 1].event_type = "FactAsserted"
           /\ table[r - 1].fact.severity = "Critical"
           /\ \E q \in SuggestionRows(table[r].incident_id, table[r].ref) :
                 table[r - 1].fact = BuiltFrom(table[q])

\* a decision on the id of an event of another type was refused
C38_RefusedOtherType ==
    /\ ui.pc = "idle" /\ ui.op = "decide_fact_suggestion"
    /\ ui.ret = "suggestion event not found"
    /\ table # <<>>

\* ----------------------------------------- properties of reprocess_incident
\* the facts of incident i that are asserted and not retracted
FactsOf(i) == materialize_fact_map(events_for_incident(table, i))

\* the built-in runbook for the fact reprocess_incident selects for incident i
BuiltinFor(i) == select_runbook(detect_pattern(FirstValue(FactsOf(i))), BuiltinRunbooks)

\* C39: reprocess_incident returns an error and leaves the log unchanged when
\* the incident has no materialized fact, and when the fact it selects matches
\* no built-in runbook: it starts a plan only for an incident with a fact for
\* which a built-in runbook exists, and every call that starts no plan returns
\* one of the two errors with the log as it was.
C39_ReprocessRefuses ==
    [][/\ (ui.pc = "idle" /\ ui'.pc = "re_plan") =>
             /\ DOMAIN FactsOf(ui'.incident_id) # {}
             /\ BuiltinFor(ui'.incident_id) # NoRunbook
             /\ ui'.selected = BuiltinFor(ui'.incident_id).steps
             /\ table' = table
       /\ (ui.pc = "idle" /\ ui'.pc = "idle" /\ ui'.n = ui.n + 1
              /\ ui'.op = "reprocess_incident") =>
             /\ table' = table
             /\ ui'.ret \in {"no active facts for incident",
                             "no matching deterministic runbook"}
             /\ ui'.ret = "no active facts for incident" =>
                   \E i \in Incidents : DOMAIN FactsOf(i) = {}
             /\ ui'.ret = "no matching deterministic runbook" =>
                   \E i \in Incidents : /\ DOMAIN FactsOf(i) # {}
                                        /\ BuiltinFor(i) = NoRunbook]_vars

\* the incident's only fact has no built-in runbook: the call was refused and
\* the log holds what it held
C39_RefusedForWantOfRunbook ==
    /\ ui.pc = "idle" /\ ui.op = "reprocess_incident"
    /\ ui.ret = "no matching deterministic runbook"
    /\ \E i \in Incidents : DOMAIN FactsOf(i) # {} /\ BuiltinFor(i) = NoRunbook
    /\ \A r \in Rows : table[r].event_type \notin {"PlanSelected", "Resolved"}

\* ------------------------- properties of the escalation-required notification
\* the escalations the agent loop has raised for incident i: those logged, and
\* the one whose request is sent and whose event is about to be appended
Raised(i) ==
    Cardinality({r \in Rows : table[r].event_type = "Escalated" /\ table[r].incident_id = i})
        + (IF BetweenSendAndLog /\ agent.incident_id = i THEN 1 ELSE 0)

\* the escalation-required notifications the UI has got for incident i, from
\* the consumer of the escalation channel and from the dispatcher
EscalationNotices(i) ==
    Cardinality({k \in 1..Len(sink.events) : /\ sink.events[k].name = "escalation-required"
                                             /\ sink.events[k].incident_id = i})

\* the consumer has emptied the channel and the dispatcher has read the whole log
Observed == /\ escalation_ch = <<>>
            /\ disp.pc = "tick"
            /\ disp.last_id = latest_event_id(table)

\* C40: in the desktop runtime each escalation raised by the agent loop
\* reaches the UI as exactly one escalation-required notification, the one of
\* the escalation consumer and the one of the dispatcher counted together:
\* never more notifications than escalations, and as many once both threads
\* have observed everything.
C40_OneNotificationPerEscalation ==
    \A i \in Incidents :
        /\ EscalationNotices(i) <= Raised(i)
        /\ (Observed /\ ~BetweenSendAndLog /\ disp.start_id = 0) => EscalationNotices(i) = Raised(i)
====
